---- MODULE Spec2Model ----
(***************************************************************************)
(* Model of the crypto portfolio dashboard: the zustand portfolio store    *)
(* (store/portfolio.ts), and the application handlers that drive it        *)
(* (App.tsx loadData / handleAddAsset, the mock price feed of              *)
(* hooks/useWebSocket.ts and the order form's onSubmit).                   *)
(*                                                                         *)
(* JavaScript numbers are modelled as exact rationals n/d extended with    *)
(* +Infinity (1/0), -Infinity (-1/0) and NaN (0/0); binary rounding and    *)
(* the sign of zero are not modelled.                                      *)
(***************************************************************************)
EXTENDS Integers, Sequences, FiniteSets, TLC

VARIABLES positions, orders, metrics, lastUpdated, now, isLoading, last,
          list, calc, feed, worker, socket, form, correlations, response,
          orderBooks

vars ==
  <<positions, orders, metrics, lastUpdated, now, isLoading, last, list,
    calc, feed, worker, socket, form, correlations, response, orderBooks>>

\* the state of the components outside the portfolio store
components ==
  <<list, calc, feed, worker, socket, form, correlations, response,
    orderBooks>>

(***************************************************************************)
(* Bounds of the model.                                                    *)
(***************************************************************************)
MaxSteps == 3
MaxPositions == 2
\* the number of generated mock positions (10000 in the code)
MaxItems == 12
\* the number of interval timers the price feed starts
MaxTimers == 3
\* the number of calls of useWebWorker's postMessage
MaxRequests == 2
\* the number of connection attempts of useWebSocket
MaxConnects == 4

(***************************************************************************)
(* Numbers.                                                                *)
(***************************************************************************)
Abs(i) == IF i < 0 THEN -i ELSE i

Sign(i) == IF i < 0 THEN -1 ELSE IF i > 0 THEN 1 ELSE 0

RECURSIVE GCD(_, _)
GCD(a, b) == IF b = 0 THEN a ELSE GCD(b, a % b)

Norm(n, d) ==
  IF d = 0 THEN [n |-> Sign(n), d |-> 0]
  ELSE LET g == GCD(Abs(n), Abs(d))
           s == Sign(d)
       IN  [n |-> s * Sign(n) * (Abs(n) \div g), d |-> Abs(d) \div g]

Num(i) == [n |-> i, d |-> 1]
Frac(n, d) == Norm(n, d)
Zero == Num(0)
Infinity == [n |-> 1, d |-> 0]
NegInfinity == [n |-> -1, d |-> 0]
NaN == [n |-> 0, d |-> 0]

IsNaN(x) == x.d = 0 /\ x.n = 0
IsFinite(x) == x.d /= 0

Neg(x) == [n |-> -x.n, d |-> x.d]

\* x + y
Add(x, y) ==
  IF IsNaN(x) \/ IsNaN(y) THEN NaN
  ELSE IF x.d = 0 /\ y.d = 0 THEN (IF x.n = y.n THEN x ELSE NaN)
  ELSE IF x.d = 0 THEN x
  ELSE IF y.d = 0 THEN y
  ELSE LET g == GCD(x.d, y.d)
           l == (x.d \div g) * y.d
       IN  Norm(x.n * (l \div x.d) + y.n * (l \div y.d), l)

\* x - y
Sub(x, y) == Add(x, Neg(y))

\* x * y
Mul(x, y) ==
  IF IsNaN(x) \/ IsNaN(y) THEN NaN
  ELSE IF x.d = 0 \/ y.d = 0
       THEN [n |-> Sign(x.n) * Sign(y.n), d |-> 0]
  ELSE LET g1 == GCD(Abs(x.n), y.d)
           g2 == GCD(Abs(y.n), x.d)
       IN  Norm((x.n \div g1) * (y.n \div g2), (x.d \div g2) * (y.d \div g1))

Recip(y) ==
  IF IsNaN(y) THEN NaN
  ELSE IF y.d = 0 THEN Zero
  ELSE IF y.n = 0 THEN Infinity
  ELSE Norm(y.d, y.n)

\* x / y
Div(x, y) == Mul(x, Recip(y))

\* x < y and x > y; every comparison with NaN is false
Lt(x, y) ==
  IF IsNaN(x) \/ IsNaN(y) THEN FALSE
  ELSE IF x.d = 0 /\ y.d = 0 THEN x.n < y.n
  ELSE Sub(x, y).n < 0

Gt(x, y) == Lt(y, x)

\* Math.max(x, y)
MathMax(x, y) ==
  IF IsNaN(x) \/ IsNaN(y) THEN NaN ELSE IF Lt(x, y) THEN y ELSE x

\* JavaScript truthiness of a number: 0 and NaN are falsy
Truthy(x) == ~IsNaN(x) /\ ~(x.d /= 0 /\ x.n = 0)

\* x || y on numbers
OrElse(x, y) == IF Truthy(x) THEN x ELSE y

Hundred == Num(100)

(***************************************************************************)
(* Symbols.  toUpperCase is modelled on the symbols the application uses.  *)
(***************************************************************************)
UpperOf ==
  [btc |-> "BTC", eth |-> "ETH", ada |-> "ADA", sol |-> "SOL",
   dot |-> "DOT", link |-> "LINK", matic |-> "MATIC", avax |-> "AVAX"]

toUpperCase(s) == IF s \in DOMAIN UpperOf THEN UpperOf[s] ELSE s

toLowerCase(s) ==
  IF \E k \in DOMAIN UpperOf : UpperOf[k] = s
  THEN CHOOSE k \in DOMAIN UpperOf : UpperOf[k] = s
  ELSE s

(***************************************************************************)
(* Position (the display name is not modelled).                            *)
(***************************************************************************)
Position(id, symbol, amount, price, averageBuyPrice, totalValue, dailyChange, dailyChangePercent, totalGainLoss, totalGainLossPercent, t) ==
  [id |-> id, symbol |-> symbol, amount |-> amount,
   currentPrice |-> price, averageBuyPrice |-> averageBuyPrice,
   totalValue |-> totalValue, dailyChange |-> dailyChange,
   dailyChangePercent |-> dailyChangePercent,
   totalGainLoss |-> totalGainLoss,
   totalGainLossPercent |-> totalGainLossPercent, lastUpdated |-> t]

(***************************************************************************)
(* calculateMetrics                                                        *)
(***************************************************************************)
RECURSIVE SumTo(_, _)
\* s.reduce((sum, x) => sum + x, 0) over the first k elements
SumTo(s, k) == IF k = 0 THEN Zero ELSE Add(SumTo(s, k - 1), s[k])

Sum(s) == SumTo(s, Len(s))

RECURSIVE bestPerformerIdx(_, _)
\* index of the accumulator of the bestPerformer reduce after k elements;
\* the initial accumulator is positions[0]
bestPerformerIdx(ps, k) ==
  IF k = 0 THEN 1
  ELSE LET best == bestPerformerIdx(ps, k - 1)
       IN  IF Gt(ps[k].dailyChangePercent,
                 OrElse(ps[best].dailyChangePercent, NegInfinity))
           THEN k ELSE best

RECURSIVE worstPerformerIdx(_, _)
worstPerformerIdx(ps, k) ==
  IF k = 0 THEN 1
  ELSE LET worst == worstPerformerIdx(ps, k - 1)
       IN  IF Lt(ps[k].dailyChangePercent,
                 OrElse(ps[worst].dailyChangePercent, Infinity))
           THEN k ELSE worst

\* performer?.symbol.toUpperCase() || 'N/A'
performerLabel(ps, idx) ==
  IF ps = <<>> THEN "N/A"
  ELSE IF toUpperCase(ps[idx].symbol) = "" THEN "N/A"
  ELSE toUpperCase(ps[idx].symbol)

calculateMetrics(ps) ==
  LET totalValue == Sum([i \in 1..Len(ps) |-> ps[i].totalValue])
      dailyChange ==
        Sum([i \in 1..Len(ps) |-> Mul(ps[i].dailyChange, ps[i].amount)])
      totalGainLoss == Sum([i \in 1..Len(ps) |-> ps[i].totalGainLoss])
  IN  [totalValue |-> totalValue,
       dailyChange |-> dailyChange,
       dailyChangePercent |->
         IF Gt(totalValue, Zero)
         THEN Mul(Div(dailyChange, totalValue), Hundred) ELSE Zero,
       totalAssets |-> Len(ps),
       bestPerformer |-> performerLabel(ps, bestPerformerIdx(ps, Len(ps))),
       worstPerformer |-> performerLabel(ps, worstPerformerIdx(ps, Len(ps))),
       totalGainLoss |-> totalGainLoss,
       totalGainLossPercent |->
         IF Gt(totalValue, Zero)
         THEN Mul(Div(totalGainLoss, Sub(totalValue, totalGainLoss)), Hundred)
         ELSE Zero]

InitialMetrics ==
  [totalValue |-> Zero, dailyChange |-> Zero, dailyChangePercent |-> Zero,
   totalAssets |-> 0, bestPerformer |-> "N/A", worstPerformer |-> "N/A",
   totalGainLoss |-> Zero, totalGainLossPercent |-> Zero]

(***************************************************************************)
(* The store's operations, as functions of the store state                 *)
(*   st = [positions, orders, metrics, lastUpdated]                        *)
(* and of the value t that Date.now() returns during the call.             *)
(***************************************************************************)
Store == [positions |-> positions, orders |-> orders, metrics |-> metrics,
          lastUpdated |-> lastUpdated]

addPosition(st, position, t) ==
  LET ps == Append(st.positions, [position EXCEPT !.lastUpdated = t])
  IN  [st EXCEPT !.positions = ps, !.metrics = calculateMetrics(ps),
                 !.lastUpdated = t]

\* index of the first position with the id, 0 for findIndex's -1
findIndex(ps, id) ==
  IF \E i \in 1..Len(ps) : ps[i].id = id
  THEN CHOOSE i \in 1..Len(ps) :
         ps[i].id = id /\ \A j \in 1..(i - 1) : ps[j].id /= id
  ELSE 0

\* Object.assign(target, updates, { lastUpdated: t })
assign(target, updates, t) ==
  [f \in DOMAIN target |->
     IF f = "lastUpdated" THEN t
     ELSE IF f \in DOMAIN updates THEN updates[f] ELSE target[f]]

updatePosition(st, id, updates, t) ==
  LET index == findIndex(st.positions, id)
  IN  IF index /= 0
      THEN LET ps == [st.positions EXCEPT
                        ![index] = assign(st.positions[index], updates, t)]
           IN  [st EXCEPT !.positions = ps, !.metrics = calculateMetrics(ps),
                          !.lastUpdated = t]
      ELSE st

\* s.filter(p => p.id !== id)
RECURSIVE filterNotId(_, _)
filterNotId(ps, id) ==
  IF ps = <<>> THEN <<>>
  ELSE IF Head(ps).id /= id
       THEN <<Head(ps)>> \o filterNotId(Tail(ps), id)
       ELSE filterNotId(Tail(ps), id)

\* removePosition without the recalculation of the metrics
removePosition_staleMetrics(st, id, t) ==
  [st EXCEPT !.positions = filterNotId(st.positions, id), !.lastUpdated = t]

removePosition(st, id, t) ==
  LET ps == filterNotId(st.positions, id)
  IN  [st EXCEPT !.positions = ps, !.metrics = calculateMetrics(ps),
                 !.lastUpdated = t]

\* priceUpdates[symbol] is truthy; priceUpdates maps some symbols to numbers
hasPrice(priceUpdates, symbol) ==
  symbol \in DOMAIN priceUpdates /\ Truthy(priceUpdates[symbol])

\* repriced with the gain computed from the value before the update
repriced_staleValue(position, newPrice, t) ==
  LET oldPrice == position.currentPrice
  IN  [position EXCEPT
         !.currentPrice = newPrice,
         !.totalValue = Mul(position.amount, newPrice),
         !.dailyChange = Sub(newPrice, oldPrice),
         !.dailyChangePercent =
            Mul(Div(Sub(newPrice, oldPrice), oldPrice), Hundred),
         !.totalGainLoss =
            Sub(position.totalValue,
                Mul(position.amount, position.averageBuyPrice)),
         !.totalGainLossPercent =
            Mul(Div(Sub(newPrice, position.averageBuyPrice),
                    position.averageBuyPrice), Hundred),
         !.lastUpdated = t]

\* the body of updatePrices' forEach for one position
repriced(position, newPrice, t) ==
  LET oldPrice == position.currentPrice
      totalValue == Mul(position.amount, newPrice)
  IN  [position EXCEPT
         !.currentPrice = newPrice,
         !.totalValue = totalValue,
         !.dailyChange = Sub(newPrice, oldPrice),
         !.dailyChangePercent =
            Mul(Div(Sub(newPrice, oldPrice), oldPrice), Hundred),
         !.totalGainLoss =
            Sub(totalValue, Mul(position.amount, position.averageBuyPrice)),
         !.totalGainLossPercent =
            Mul(Div(Sub(newPrice, position.averageBuyPrice),
                    position.averageBuyPrice), Hundred),
         !.lastUpdated = t]

\* updatePrices stamping every position, priced or not
updatePrices_stampAll(st, priceUpdates, t) ==
  LET ps == [i \in 1..Len(st.positions) |->
               IF hasPrice(priceUpdates, st.positions[i].symbol)
               THEN repriced(st.positions[i],
                             priceUpdates[st.positions[i].symbol], t)
               ELSE [st.positions[i] EXCEPT !.lastUpdated = t]]
  IN  [st EXCEPT !.positions = ps, !.metrics = calculateMetrics(ps),
                 !.lastUpdated = t]

updatePrices(st, priceUpdates, t) ==
  LET ps == [i \in 1..Len(st.positions) |->
               IF hasPrice(priceUpdates, st.positions[i].symbol)
               THEN repriced(st.positions[i],
                             priceUpdates[st.positions[i].symbol], t)
               ELSE st.positions[i]]
  IN  [st EXCEPT !.positions = ps, !.metrics = calculateMetrics(ps),
                 !.lastUpdated = t]

\* index of positions.find(p => p.symbol === symbol), 0 for undefined
findSymbol(ps, symbol) ==
  IF \E i \in 1..Len(ps) : ps[i].symbol = symbol
  THEN CHOOSE i \in 1..Len(ps) :
         ps[i].symbol = symbol /\ \A j \in 1..(i - 1) : ps[j].symbol /= symbol
  ELSE 0

\* bought with the weighted sum divided by the amount before the buy
bought_oldAmount(position, trade, t) ==
  LET newAmount == Add(position.amount, trade.amount)
      newAverageBuyPrice ==
        Div(Add(Mul(position.amount, position.averageBuyPrice),
                Mul(trade.amount, trade.price)), position.amount)
      totalValue == Mul(newAmount, position.currentPrice)
  IN  [position EXCEPT
         !.amount = newAmount,
         !.averageBuyPrice = newAverageBuyPrice,
         !.totalValue = totalValue,
         !.totalGainLoss =
            Sub(totalValue, Mul(newAmount, newAverageBuyPrice)),
         !.totalGainLossPercent =
            Mul(Div(Sub(position.currentPrice, newAverageBuyPrice),
                    newAverageBuyPrice), Hundred),
         !.lastUpdated = t]

\* the 'buy' branch of optimisticTrade
bought(position, trade, t) ==
  LET newAmount == Add(position.amount, trade.amount)
      newAverageBuyPrice ==
        Div(Add(Mul(position.amount, position.averageBuyPrice),
                Mul(trade.amount, trade.price)), newAmount)
      totalValue == Mul(newAmount, position.currentPrice)
  IN  [position EXCEPT
         !.amount = newAmount,
         !.averageBuyPrice = newAverageBuyPrice,
         !.totalValue = totalValue,
         !.totalGainLoss =
            Sub(totalValue, Mul(newAmount, newAverageBuyPrice)),
         !.totalGainLossPercent =
            Mul(Div(Sub(position.currentPrice, newAverageBuyPrice),
                    newAverageBuyPrice), Hundred),
         !.lastUpdated = t]

\* sold with the average price reset to the trade's price
sold_resetAverage(position, trade, t) ==
  LET newAmount == MathMax(Zero, Sub(position.amount, trade.amount))
      totalValue == Mul(newAmount, position.currentPrice)
  IN  [position EXCEPT
         !.amount = newAmount,
         !.averageBuyPrice = trade.price,
         !.totalValue = totalValue,
         !.totalGainLoss = Sub(totalValue, Mul(newAmount, trade.price)),
         !.lastUpdated = t]

\* the 'sell' branch of optimisticTrade
sold(position, trade, t) ==
  LET newAmount == MathMax(Zero, Sub(position.amount, trade.amount))
      totalValue == Mul(newAmount, position.currentPrice)
  IN  [position EXCEPT
         !.amount = newAmount,
         !.totalValue = totalValue,
         !.totalGainLoss =
            Sub(totalValue, Mul(newAmount, position.averageBuyPrice)),
         !.lastUpdated = t]

\* optimisticTrade without the recalculation of the metrics
optimisticTrade_staleMetrics(st, trade, t) ==
  LET index == findSymbol(st.positions, trade.symbol)
      ps == IF index /= 0
            THEN [st.positions EXCEPT
                    ![index] = IF trade.type = "buy"
                               THEN bought(st.positions[index], trade, t)
                               ELSE sold(st.positions[index], trade, t)]
            ELSE st.positions
  IN  [st EXCEPT !.positions = ps, !.lastUpdated = t]

optimisticTrade(st, trade, t) ==
  LET index == findSymbol(st.positions, trade.symbol)
      ps == IF index /= 0
            THEN [st.positions EXCEPT
                    ![index] = IF trade.type = "buy"
                               THEN bought(st.positions[index], trade, t)
                               ELSE sold(st.positions[index], trade, t)]
            ELSE st.positions
  IN  [st EXCEPT !.positions = ps, !.metrics = calculateMetrics(ps),
                 !.lastUpdated = t]

\* a placeholder in the source: it only logs
revertOptimisticTrade(st, tradeId) == st

addOrder(st, orderData, t) ==
  [st EXCEPT !.orders =
     Append(st.orders,
            [symbol |-> orderData.symbol, type |-> orderData.type,
             orderType |-> orderData.orderType, amount |-> orderData.amount,
             status |-> orderData.status, id |-> Len(st.orders) + 1,
             timestamp |-> t])]

(***************************************************************************)
(* Inputs of the store's operations.                                       *)
(***************************************************************************)
Symbols == {"btc", "eth"}

\* positions as the callers of addPosition build them: totalValue is
\* amount * currentPrice and the other derived fields are 0
NewPosition(id, symbol, amount, price, averageBuyPrice) ==
  Position(id, symbol, amount, price, averageBuyPrice,
           Mul(amount, price), Zero, Zero, Zero, Zero, 0)

Ids == {1, 2}

PositionInputs ==
  { NewPosition(id, s, Num(2), Num(50000), Num(40000)) :
      id \in Ids, s \in Symbols }
  \cup { NewPosition(id, "btc", Num(1), Zero, Num(40000)) : id \in Ids }
  \cup { NewPosition(id, "eth", Num(1), Num(50000), Zero) : id \in Ids }

PriceVals == {Zero, Num(40000), Num(60000)}

\* Record<string, number>: a map from some of the symbols to prices
PriceUpdateInputs ==
  UNION { [S -> PriceVals] : S \in SUBSET Symbols }

UpdateInputs ==
  { [amount |-> Num(3)],
    [currentPrice |-> Num(60000)],
    [amount |-> Num(1), totalValue |-> Num(50000)] }

TradeInputs ==
  [symbol : Symbols, amount : {Num(1), Num(3)}, price : {Num(60000)},
   type : {"buy", "sell"}]

(***************************************************************************)
(* The positions list (VirtualizedPositionsList.tsx).  Strings are         *)
(* modelled by the sequence of their lower-case characters; positions      *)
(* take their display name from their symbol; scroll offsets are whole     *)
(* pixels.                                                                 *)
(***************************************************************************)
\* the characters of s.toLowerCase(), for the symbols, names and search
\* terms of the model
lowerChars(s) ==
  CASE s = "" -> <<>>
    [] s = "b" -> <<"b">>
    [] s = "co" -> <<"c", "o">>
    [] s = "zz" -> <<"z", "z">>
    [] s \in {"btc", "BTC"} -> <<"b", "t", "c">>
    [] s \in {"eth", "ETH"} -> <<"e", "t", "h">>
    [] s \in {"ada", "ADA"} -> <<"a", "d", "a">>
    [] s \in {"sol", "SOL"} -> <<"s", "o", "l">>
    [] s \in {"dot", "DOT"} -> <<"d", "o", "t">>
    [] s \in {"link", "LINK"} -> <<"l", "i", "n", "k">>
    [] s \in {"matic", "MATIC"} -> <<"m", "a", "t", "i", "c">>
    [] s \in {"avax", "AVAX"} -> <<"a", "v", "a", "x">>
    [] s \in {"atom", "ATOM"} -> <<"a", "t", "o", "m">>
    [] s \in {"ftm", "FTM"} -> <<"f", "t", "m">>
    [] s = "Bitcoin" -> <<"b", "i", "t", "c", "o", "i", "n">>
    [] s = "Ethereum" -> <<"e", "t", "h", "e", "r", "e", "u", "m">>
    [] s = "Cardano" -> <<"c", "a", "r", "d", "a", "n", "o">>
    [] s = "Solana" -> <<"s", "o", "l", "a", "n", "a">>
    [] s = "Polkadot" -> <<"p", "o", "l", "k", "a", "d", "o", "t">>
    [] s = "Chainlink" -> <<"c", "h", "a", "i", "n", "l", "i", "n", "k">>
    [] s = "Polygon" -> <<"p", "o", "l", "y", "g", "o", "n">>
    [] s = "Avalanche" -> <<"a", "v", "a", "l", "a", "n", "c", "h", "e">>
    [] s = "Cosmos" -> <<"c", "o", "s", "m", "o", "s">>
    [] s = "Fantom" -> <<"f", "a", "n", "t", "o", "m">>

\* haystack.includes(needle) on character sequences
includes(haystack, needle) ==
  \E i \in 0..(Len(haystack) - Len(needle)) :
    SubSeq(haystack, i + 1, i + Len(needle)) = needle

Alphabet ==
  <<"a", "b", "c", "d", "e", "f", "g", "h", "i", "j", "k", "l", "m",
    "n", "o", "p", "q", "r", "s", "t", "u", "v", "w", "x", "y", "z">>

letterRank(c) == CHOOSE i \in 1..Len(Alphabet) : Alphabet[i] = c

RECURSIVE localeCompare(_, _)
\* a.localeCompare(b) on lower-case words: negative, 0 or positive
localeCompare(a, b) ==
  IF a = <<>> THEN (IF b = <<>> THEN 0 ELSE -1)
  ELSE IF b = <<>> THEN 1
  ELSE IF Head(a) = Head(b) THEN localeCompare(Tail(a), Tail(b))
  ELSE IF letterRank(Head(a)) < letterRank(Head(b)) THEN -1 ELSE 1

mockSymbols ==
  <<"BTC", "ETH", "ADA", "SOL", "DOT", "LINK", "MATIC", "AVAX", "ATOM",
    "FTM">>

mockNames ==
  <<"Bitcoin", "Ethereum", "Cardano", "Solana", "Polkadot", "Chainlink",
    "Polygon", "Avalanche", "Cosmos", "Fantom">>

basePrice ==
  <<Num(67420), Num(3850), Frac(65, 100), Frac(14532, 100),
    Frac(845, 100), Frac(1892, 100), Frac(89, 100), Frac(4218, 100),
    Frac(1234, 100), Frac(67, 100)>>

\* the display name of a position
nameOf(position) ==
  IF \E k \in 1..Len(mockSymbols) :
       lowerChars(mockSymbols[k]) = lowerChars(position.symbol)
  THEN mockNames[CHOOSE k \in 1..Len(mockSymbols) :
                   lowerChars(mockSymbols[k]) = lowerChars(position.symbol)]
  ELSE position.symbol

\* r[index] holds the four Math.random() draws of one mock position: p
\* (price), b (average buy price), a (amount) and d (daily change)
generateMockPositions(count, r) ==
  [k \in 1..count |->
     LET index == k - 1
         symbolIndex == (index % Len(mockSymbols)) + 1
         price == Mul(basePrice[symbolIndex],
                      Add(Num(1), Mul(Sub(r[k].p, Frac(1, 2)), Frac(1, 10))))
         averageBuyPrice ==
           Mul(price, Add(Frac(8, 10), Mul(r[k].b, Frac(4, 10))))
         amount == Add(Mul(r[k].a, Hundred), Num(1))
         totalValue == Mul(amount, price)
         dailyChangePercent == Mul(Sub(r[k].d, Frac(1, 2)), Num(10))
     IN  Position(1000 + index, toLowerCase(mockSymbols[symbolIndex]),
                  amount, price, averageBuyPrice, totalValue,
                  Div(Mul(price, dailyChangePercent), Hundred),
                  dailyChangePercent,
                  Sub(totalValue, Mul(amount, averageBuyPrice)),
                  Mul(Div(Sub(price, averageBuyPrice), averageBuyPrice),
                      Hundred),
                  0)]

\* the predicate of positions.filter
matches(position, searchTerm) ==
  \/ includes(lowerChars(position.symbol), lowerChars(searchTerm))
  \/ includes(lowerChars(nameOf(position)), lowerChars(searchTerm))

\* the sign of a number; NaN counts as 0, as Array.prototype.sort takes it
signOf(x) == Sign(x.n)

\* a comparator that ignores the sort order
compare_ignoreOrder(a, b, sortBy, sortOrder) ==
  CASE sortBy = "symbol" ->
         localeCompare(lowerChars(a.symbol), lowerChars(b.symbol))
    [] sortBy = "value" -> signOf(Sub(a.totalValue, b.totalValue))
    [] sortBy = "pnl" ->
         signOf(Sub(a.totalGainLossPercent, b.totalGainLossPercent))
    [] OTHER -> 0

\* the comparator handed to filtered.sort
compare(a, b, sortBy, sortOrder) ==
  LET comparison ==
        CASE sortBy = "symbol" ->
               localeCompare(lowerChars(a.symbol), lowerChars(b.symbol))
          [] sortBy = "value" -> signOf(Sub(a.totalValue, b.totalValue))
          [] sortBy = "pnl" ->
               signOf(Sub(a.totalGainLossPercent, b.totalGainLossPercent))
          [] OTHER -> 0
  IN  IF sortOrder = "desc" THEN -comparison ELSE comparison

RECURSIVE insertSorted(_, _, _, _)
\* x goes behind every element that does not compare greater than x
insertSorted(sorted, x, sortBy, sortOrder) ==
  IF sorted = <<>> THEN <<x>>
  ELSE LET n == Len(sorted)
       IN  IF compare(sorted[n], x, sortBy, sortOrder) > 0
           THEN Append(insertSorted(SubSeq(sorted, 1, n - 1), x, sortBy,
                                    sortOrder),
                       sorted[n])
           ELSE Append(sorted, x)

RECURSIVE sortTo(_, _, _, _)
\* Array.prototype.sort, a stable sort, over the first k elements
sortTo(s, k, sortBy, sortOrder) ==
  IF k = 0 THEN <<>>
  ELSE insertSorted(sortTo(s, k - 1, sortBy, sortOrder), s[k], sortBy,
                    sortOrder)

sort(s, sortBy, sortOrder) == sortTo(s, Len(s), sortBy, sortOrder)

filteredAndSortedPositions(ps, searchTerm, sortBy, sortOrder) ==
  LET keep(position) == matches(position, searchTerm)
  IN  sort(SelectSeq(ps, keep), sortBy, sortOrder)

Floor(a, b) == a \div b

Ceil(a, b) == -((-a) \div b)

Min(a, b) == IF a < b THEN a ELSE b

\* items.slice(from, to) with 0 <= from and 0 <= to
slice(items, from, to) == SubSeq(items, from + 1, Min(to, Len(items)))

\* a window of the rows that fit the container, without overscan
useVirtualization_noOverscan(items, containerHeight, rowHeight, scrollTop) ==
  LET startIndex == Floor(scrollTop, rowHeight)
      endIndex ==
        Min(startIndex + Ceil(containerHeight, rowHeight) - 1,
            Len(items) - 1)
  IN  [visibleItems |-> slice(items, startIndex, endIndex + 1),
       totalHeight |-> Len(items) * rowHeight,
       offsetY |-> startIndex * rowHeight,
       startIndex |-> startIndex,
       endIndex |-> endIndex]

\* a window with two more rows of overscan
useVirtualization_wideOverscan(items, containerHeight, rowHeight, scrollTop) ==
  LET startIndex == Floor(scrollTop, rowHeight)
      endIndex ==
        Min(startIndex + Ceil(containerHeight, rowHeight) + 3,
            Len(items) - 1)
  IN  [visibleItems |-> slice(items, startIndex, endIndex + 1),
       totalHeight |-> Len(items) * rowHeight,
       offsetY |-> startIndex * rowHeight,
       startIndex |-> startIndex,
       endIndex |-> endIndex]

useVirtualization(items, containerHeight, rowHeight, scrollTop) ==
  LET startIndex == Floor(scrollTop, rowHeight)
      endIndex ==
        Min(startIndex + Ceil(containerHeight, rowHeight) + 1,
            Len(items) - 1)
  IN  [visibleItems |-> slice(items, startIndex, endIndex + 1),
       totalHeight |-> Len(items) * rowHeight,
       offsetY |-> startIndex * rowHeight,
       startIndex |-> startIndex,
       endIndex |-> endIndex]

\* the default row height of useVirtualization
itemHeight == 56

\* the component state after mount
ListInitial(height, mockPositions) ==
  [height |-> height, mockPositions |-> mockPositions, searchTerm |-> "",
   sortBy |-> "value", sortOrder |-> "desc", scrollTop |-> 0]

\* the draws of the mock positions, all 1/2 except the amount draw 0: every
\* mock position is worth its base price with a gain of 0
EvenDraws ==
  [k \in 1..MaxItems |->
     [p |-> Frac(1, 2), b |-> Frac(1, 2), a |-> Zero, d |-> Frac(1, 2)]]

\* the list as the application mounts it
ListDefault == ListInitial(600, generateMockPositions(MaxItems, EvenDraws))

(***************************************************************************)
(* The risk calculator (RiskCalculator.tsx).                               *)
(***************************************************************************)
\* Math.abs
MathAbs(x) == [n |-> Abs(x.n), d |-> x.d]

\* x >= y and x <= y
Ge(x, y) == Gt(x, y) \/ (~IsNaN(x) /\ x = y)

Le(x, y) == Ge(y, x)

\* the component state after mount
CalcInitial ==
  [entryPrice |-> Zero, stopLoss |-> Zero, takeProfit |-> Zero,
   positionSize |-> Zero, riskPercent |-> Num(2),
   calculationMethod |-> "risk-based"]

\* metrics.totalValue || 100000
portfolioValue(m) == OrElse(m.totalValue, Num(100000))

\* a risk-based size that divides by the entry price
riskBasedSize_perEntry(c, value) ==
  LET riskPerUnit == MathAbs(Sub(c.entryPrice, c.stopLoss))
      riskAmount == Div(Mul(value, c.riskPercent), Hundred)
  IN  [riskAmount |-> riskAmount,
       positionSize |-> IF Gt(riskPerUnit, Zero)
                        THEN Div(riskAmount, c.entryPrice) ELSE Zero]

\* the risk-based branch: risk amount and position size
riskBasedSize(c, value) ==
  LET riskPerUnit == MathAbs(Sub(c.entryPrice, c.stopLoss))
      riskAmount == Div(Mul(value, c.riskPercent), Hundred)
  IN  [riskAmount |-> riskAmount,
       positionSize |-> IF Gt(riskPerUnit, Zero)
                        THEN Div(riskAmount, riskPerUnit) ELSE Zero]

\* the warnings, in the order they are pushed
calcWarnings(c, side, value, size, portfolioImpact, riskRewardRatio) ==
  (IF side = "buy" /\ Ge(c.stopLoss, c.entryPrice)
   THEN <<"stop loss not below entry">> ELSE <<>>)
  \o (IF side = "sell" /\ Le(c.stopLoss, c.entryPrice)
      THEN <<"stop loss not above entry">> ELSE <<>>)
  \o (IF Truthy(c.takeProfit) /\ side = "buy"
         /\ Le(c.takeProfit, c.entryPrice)
      THEN <<"take profit not above entry">> ELSE <<>>)
  \o (IF Truthy(c.takeProfit) /\ side = "sell"
         /\ Ge(c.takeProfit, c.entryPrice)
      THEN <<"take profit not below entry">> ELSE <<>>)
  \o (IF Gt(portfolioImpact, Num(10))
      THEN <<"high portfolio impact">> ELSE <<>>)
  \o (IF Lt(riskRewardRatio, Num(1))
      THEN <<"risk/reward below 1:1">> ELSE <<>>)
  \o (IF Gt(Mul(size, c.entryPrice), Mul(value, Frac(1, 2)))
      THEN <<"size exceeds 50% of portfolio">> ELSE <<>>)

\* the calculation memo of the component
calculation(c, side, value) ==
  IF ~Truthy(c.entryPrice) \/ ~Truthy(c.stopLoss)
  THEN [entryPrice |-> c.entryPrice, stopLoss |-> c.stopLoss,
        takeProfit |-> c.takeProfit, positionSize |-> c.positionSize,
        riskAmount |-> Zero, riskPercent |-> Zero, rewardAmount |-> Zero,
        riskRewardRatio |-> Zero, portfolioImpact |-> Zero,
        maxLoss |-> Zero, maxGain |-> Zero, breakEvenPrice |-> c.entryPrice,
        marginRequired |-> Zero, isValid |-> FALSE, warnings |-> <<>>]
  ELSE
    LET riskPerUnit == MathAbs(Sub(c.entryPrice, c.stopLoss))
        rewardPerUnit ==
          IF Truthy(c.takeProfit)
          THEN MathAbs(Sub(c.takeProfit, c.entryPrice)) ELSE Zero
        sized ==
          IF c.calculationMethod = "risk-based" /\ Gt(c.riskPercent, Zero)
          THEN riskBasedSize(c, value)
          ELSE IF c.calculationMethod = "percent" /\ Gt(c.positionSize, Zero)
          THEN LET size == Div(Mul(value, c.positionSize),
                               Mul(Hundred, c.entryPrice))
               IN  [riskAmount |-> Mul(size, riskPerUnit),
                    positionSize |-> size]
          ELSE [riskAmount |-> Mul(c.positionSize, riskPerUnit),
                positionSize |-> c.positionSize]
        rewardAmount == Mul(sized.positionSize, rewardPerUnit)
        riskRewardRatio ==
          IF Gt(sized.riskAmount, Zero)
          THEN Div(rewardAmount, sized.riskAmount) ELSE Zero
        portfolioImpact ==
          IF Gt(value, Zero)
          THEN Mul(Div(sized.riskAmount, value), Hundred) ELSE Zero
        warnings ==
          calcWarnings(c, side, value, sized.positionSize, portfolioImpact,
                       riskRewardRatio)
    IN  [entryPrice |-> c.entryPrice, stopLoss |-> c.stopLoss,
         takeProfit |-> c.takeProfit, positionSize |-> sized.positionSize,
         riskAmount |-> sized.riskAmount, riskPercent |-> portfolioImpact,
         rewardAmount |-> rewardAmount,
         riskRewardRatio |-> riskRewardRatio,
         portfolioImpact |-> portfolioImpact, maxLoss |-> sized.riskAmount,
         maxGain |-> rewardAmount, breakEvenPrice |-> c.entryPrice,
         marginRequired |->
           Mul(Mul(sized.positionSize, c.entryPrice), Frac(1, 10)),
         isValid |-> /\ Gt(c.entryPrice, Zero)
                     /\ Gt(c.stopLoss, Zero) /\ c.stopLoss /= c.entryPrice
                     /\ Gt(sized.positionSize, Zero)
                     /\ Len(warnings) = 0,
         warnings |-> warnings]

(***************************************************************************)
(* The mock price feed (useMockPriceUpdates of hooks/useWebSocket.ts): an  *)
(* effect that starts an interval timer while the hook is enabled and      *)
(* clears it in its cleanup.  timers holds the ids of the live interval    *)
(* timers, interval the id the running effect has captured (0: none).      *)
(***************************************************************************)
\* before the hook is mounted
FeedInitial ==
  [mounted |-> FALSE, enabled |-> FALSE, timers |-> {}, interval |-> 0,
   nextId |-> 1]

\* a cleanup that leaves the timer running
feedCleanup_keepsTimer(f) ==
  [f EXCEPT !.interval = 0]

\* return () => clearInterval(interval)
feedCleanup(f) ==
  [f EXCEPT !.timers = f.timers \ {f.interval}, !.interval = 0]

\* the effect: if (!enabled) return; const interval = setInterval(...)
feedEffect(f, enabled) ==
  IF ~enabled THEN [f EXCEPT !.enabled = FALSE]
  ELSE [f EXCEPT !.enabled = TRUE, !.timers = f.timers \cup {f.nextId},
                 !.interval = f.nextId, !.nextId = f.nextId + 1]

(***************************************************************************)
(* The web worker hook (useWebWorker).  promises holds one record per call *)
(* of postMessage: the request id (0: none was drawn), the state of the    *)
(* returned promise, the error it was rejected with, whether its timeout   *)
(* timer is still to fire and whether its message is with the worker.      *)
(* pending is the key set of pendingRequestsRef.                           *)
(***************************************************************************)
\* before the hook is mounted: workerRef.current is null
WorkerInitial ==
  [mounted |-> FALSE, available |-> FALSE, counter |-> 0, pending |-> {},
   promises |-> <<>>]

\* const staleTimeout = 30000
staleTimeout == 30000

\* resolve or reject of the promise of request id; a settled promise stays
\* as it is
settle(promises, id, state, error) ==
  [k \in 1..Len(promises) |->
     IF promises[k].id = id /\ promises[k].state = "pending"
     THEN [promises[k] EXCEPT !.state = state, !.error = error]
     ELSE promises[k]]

\* pendingRequestsRef.current.forEach(({ reject }) => reject(new Error(...)))
rejectAll(promises, ids, error) ==
  [k \in 1..Len(promises) |->
     IF promises[k].id \in ids /\ promises[k].state = "pending"
     THEN [promises[k] EXCEPT !.state = "rejected", !.error = error]
     ELSE promises[k]]

\* the executor of the promise postMessage returns
postMessage(w, timeout) ==
  IF ~w.available
  THEN [w EXCEPT !.promises =
          Append(w.promises,
                 [id |-> 0, state |-> "rejected",
                  error |-> "Worker not available", timer |-> FALSE,
                  sent |-> FALSE, timeout |-> timeout])]
  ELSE LET id == w.counter + 1
       IN  [w EXCEPT !.counter = id,
                     !.pending = w.pending \cup {id},
                     !.promises =
                       Append(w.promises,
                              [id |-> id, state |-> "pending", error |-> "",
                               timer |-> TRUE, sent |-> TRUE,
                               timeout |-> timeout])]

\* the timer of request id has fired
timerDone(promises, id) ==
  [k \in 1..Len(promises) |->
     IF promises[k].id = id THEN [promises[k] EXCEPT !.timer = FALSE]
     ELSE promises[k]]

\* a timeout callback that drops the request without rejecting it
onTimeout_noReject(w, id) ==
  [w EXCEPT !.pending = w.pending \ {id},
            !.promises = timerDone(w.promises, id)]

\* the callback of setTimeout(..., timeout)
onTimeout(w, id) ==
  IF id \in w.pending
  THEN [w EXCEPT !.pending = w.pending \ {id},
                 !.promises =
                   settle(timerDone(w.promises, id), id, "rejected",
                          "Request timeout")]
  ELSE [w EXCEPT !.promises = timerDone(w.promises, id)]

\* the worker has handled the message of request id
answered(promises, id) ==
  [k \in 1..Len(promises) |->
     IF promises[k].id = id THEN [promises[k] EXCEPT !.sent = FALSE]
     ELSE promises[k]]

\* an onmessage that settles a pending request whatever the response id
onmessage_anyPending(w, id, error) ==
  IF w.pending /= {}
  THEN LET first == CHOOSE p \in w.pending : \A q \in w.pending : p <= q
       IN  [w EXCEPT !.pending = w.pending \ {first},
                     !.promises =
                       IF error /= ""
                       THEN settle(answered(w.promises, id), first,
                                   "rejected", error)
                       ELSE settle(answered(w.promises, id), first,
                                   "resolved", "")]
  ELSE [w EXCEPT !.promises = answered(w.promises, id)]

\* workerRef.current.onmessage with { id, result, error }
onmessage(w, id, error) ==
  IF id \in w.pending
  THEN [w EXCEPT !.pending = w.pending \ {id},
                 !.promises =
                   IF error /= ""
                   THEN settle(answered(w.promises, id), id, "rejected",
                               error)
                   ELSE settle(answered(w.promises, id), id, "resolved", "")]
  ELSE [w EXCEPT !.promises = answered(w.promises, id)]

\* workerRef.current.onerror
onerror(w) ==
  [w EXCEPT !.pending = {},
            !.promises = rejectAll(w.promises, w.pending, "Worker error")]

\* terminate, also the cleanup of the effect: the worker takes its
\* unanswered messages with it
terminate(w) ==
  [w EXCEPT !.available = FALSE, !.pending = {},
            !.promises =
              [k \in 1..Len(w.promises) |->
                 [rejectAll(w.promises, w.pending, "Worker terminated")[k]
                    EXCEPT !.sent = FALSE]]]

\* the requests the sweep of stale requests may find older than
\* staleTimeout: their own timer has not fired before
staleRequests(w) ==
  { id \in w.pending :
      \E k \in 1..Len(w.promises) :
        /\ w.promises[k].id = id
        /\ w.promises[k].timer
        /\ w.promises[k].timeout > staleTimeout }

\* the interval callback, ids being the requests older than staleTimeout
sweepStale(w, ids) ==
  [w EXCEPT !.pending = w.pending \ ids,
            !.promises = rejectAll(w.promises, ids, "Request timeout")]

(***************************************************************************)
(* The WebSocket hook (useWebSocket of hooks/useWebSocket.ts).  ws holds   *)
(* the ready state of every socket the hook has created, wsRef the index   *)
(* of the one wsRef.current points to (0: null); timers holds the live     *)
(* reconnect timers with the attempt they were scheduled for and their     *)
(* delay, timeoutRef the id in reconnectTimeoutRef.  exhausted remembers   *)
(* that the attempts have reached the maximum since the last successful    *)
(* open, halted that disconnect() has run and neither an effect nor the    *)
(* caller has called connect() since.                                      *)
(***************************************************************************)
\* the defaults of the options
maxReconnectAttempts == 5

reconnectInterval == 3000

\* the cap of the reconnect delay, in ms
maxDelay == 30000

\* the hook before its first effect, with the options of the caller
SocketInitial(urlValid, maxAttempts, interval) ==
  [mounted |-> FALSE, enabled |-> TRUE, urlValid |-> urlValid,
   maxReconnectAttempts |-> maxAttempts, reconnectInterval |-> interval,
   ws |-> <<>>, wsRef |-> 0, attempts |-> 0, isConnecting |-> FALSE,
   timers |-> {}, timeoutRef |-> 0, nextTimer |-> 1,
   status |-> "disconnected", exhausted |-> FALSE, connects |-> 0,
   halted |-> FALSE]

SocketDefault == SocketInitial(TRUE, maxReconnectAttempts, reconnectInterval)

RECURSIVE Pow2(_)
\* Math.pow(2, n)
Pow2(n) == IF n <= 0 THEN 1 ELSE 2 * Pow2(n - 1)

\* a scheduleReconnect without the limit of attempts
scheduleReconnect_noLimit(s) ==
  LET n == s.attempts + 1
      delay == Min(s.reconnectInterval * Pow2(n - 1), maxDelay)
  IN  [s EXCEPT !.attempts = n,
                !.timers = s.timers
                           \cup {[id |-> s.nextTimer, attempt |-> n,
                                  delay |-> delay]},
                !.timeoutRef = s.nextTimer,
                !.nextTimer = s.nextTimer + 1,
                !.exhausted = s.exhausted \/ n >= s.maxReconnectAttempts]

scheduleReconnect(s) ==
  IF s.attempts >= s.maxReconnectAttempts THEN s
  ELSE LET n == s.attempts + 1
           delay == Min(s.reconnectInterval * Pow2(n - 1), maxDelay)
       IN  [s EXCEPT !.attempts = n,
                     !.timers = s.timers
                                \cup {[id |-> s.nextTimer, attempt |-> n,
                                       delay |-> delay]},
                     !.timeoutRef = s.nextTimer,
                     !.nextTimer = s.nextTimer + 1,
                     !.exhausted = s.exhausted \/ n >= s.maxReconnectAttempts]

\* new WebSocket(url) throws for a url that is not valid
connect(s) ==
  IF ~s.enabled \/ s.isConnecting
     \/ (s.wsRef /= 0 /\ s.ws[s.wsRef] = "open")
  THEN s
  ELSE IF s.urlValid
  THEN [s EXCEPT !.isConnecting = TRUE, !.status = "reconnecting",
                 !.connects = s.connects + 1,
                 !.ws = Append(s.ws, "connecting"),
                 !.wsRef = Len(s.ws) + 1]
  ELSE scheduleReconnect([s EXCEPT !.isConnecting = FALSE,
                                   !.status = "disconnected",
                                   !.connects = s.connects + 1])

\* the onopen handler of socket i
onopen(s, i) ==
  [s EXCEPT !.ws[i] = "open", !.isConnecting = FALSE, !.attempts = 0,
            !.status = "connected", !.exhausted = FALSE]

\* the onclose handler of socket i
onclose(s, i, code) ==
  LET closed == [s EXCEPT !.ws[i] = "closed", !.isConnecting = FALSE,
                          !.status = "disconnected"]
  IN  IF code /= 1000 /\ s.attempts < s.maxReconnectAttempts
      THEN scheduleReconnect(closed) ELSE closed

\* the onerror handler of a socket
onsocketerror(s) ==
  [s EXCEPT !.isConnecting = FALSE, !.status = "disconnected"]

\* ws.close(1000, ...): a socket that is open closes cleanly, one that is
\* still connecting fails
closing(state) ==
  CASE state = "open" -> "closingClean"
    [] state = "connecting" -> "closingFailed"
    [] OTHER -> state

disconnect(s) ==
  LET cleared == [s EXCEPT !.timers = {t \in s.timers : t.id /= s.timeoutRef},
                           !.timeoutRef = 0]
      closed == IF s.wsRef /= 0
                THEN [cleared EXCEPT !.ws[s.wsRef] = closing(s.ws[s.wsRef]),
                                     !.wsRef = 0]
                ELSE cleared
  IN  [closed EXCEPT !.status = "disconnected", !.attempts = 0,
                     !.isConnecting = FALSE, !.halted = TRUE]

(***************************************************************************)
(* The portfolio worker: calculateCorrelations.                            *)
(***************************************************************************)
\* the result of the last CALCULATE_CORRELATIONS message, none at first
NoCorrelations == <<>>

\* index of the last position with the symbol, whose iteration writes last
lastOf(ps, symbol) ==
  CHOOSE i \in 1..Len(ps) :
    /\ ps[i].symbol = symbol
    /\ \A j \in 1..Len(ps) : ps[j].symbol = symbol => j <= i

\* 0.3 + Math.random() * 0.4
mockCorrelation(random) == Add(Frac(3, 10), Mul(random, Frac(4, 10)))

\* the nested forEach: row pos1.symbol, column pos2.symbol, 1 for equal
\* symbols and a fresh draw r[i, j] for every other ordered pair
calculateCorrelations(ps, r) ==
  LET symbols == {ps[i].symbol : i \in 1..Len(ps)}
  IN  [a \in symbols |->
        [b \in symbols |->
          IF a = b THEN Num(1)
          ELSE mockCorrelation(r[lastOf(ps, a), lastOf(ps, b)])]]

(***************************************************************************)
(* The portfolio worker: calculateRiskMetrics.                             *)
(***************************************************************************)
\* orderBooks of the market store: {} at first
NoOrderBooks == <<>>

\* the last response posted by the worker, none at first
NoResponse == [type |-> "none", payload |-> <<>>, result |-> <<>>]

\* positions.map(p => (p.currentPrice - p.averageBuyPrice) / p.averageBuyPrice)
returnsOf(ps) ==
  [i \in 1..Len(ps) |->
     Div(Sub(ps[i].currentPrice, ps[i].averageBuyPrice),
         ps[i].averageBuyPrice)]

RECURSIVE insertAscending(_, _)
\* sort((a, b) => a - b): a NaN difference counts as 0
insertAscending(sorted, x) ==
  IF sorted = <<>> THEN <<x>>
  ELSE LET n == Len(sorted)
       IN  IF signOf(Sub(sorted[n], x)) > 0
           THEN Append(insertAscending(SubSeq(sorted, 1, n - 1), x),
                       sorted[n])
           ELSE Append(sorted, x)

RECURSIVE sortAscendingTo(_, _)
sortAscendingTo(s, k) ==
  IF k = 0 THEN <<>> ELSE insertAscending(sortAscendingTo(s, k - 1), s[k])

sortAscending(s) == sortAscendingTo(s, Len(s))

\* array[index] || 0, where an index outside the array reads undefined
elementOrZero(array, index) ==
  IF index + 1 \in 1..Len(array) THEN OrElse(array[index + 1], Zero) ELSE Zero

\* the value-at-risk part of calculateRiskMetrics (beta and correlation are
\* random mocks, the deviations need square roots)
calculateRiskMetrics(ps) ==
  LET sortedReturns == sortAscending(returnsOf(ps))
      var95Index == Floor(Len(sortedReturns) * 5, 100)
      var99Index == Floor(Len(sortedReturns) * 1, 100)
      worstReturns == slice(sortedReturns, 0, var95Index + 1)
  IN  [var95 |-> Mul(elementOrZero(sortedReturns, var95Index), Hundred),
       var99 |-> Mul(elementOrZero(sortedReturns, var99Index), Hundred),
       expectedShortfall |->
         Mul(Div(Sum(worstReturns), Num(Len(worstReturns))), Hundred)]

(***************************************************************************)
(* The portfolio worker: processPriceData and the technical indicators.    *)
(* Arrays are sequences; At reads them with the source's 0-based index.    *)
(***************************************************************************)
\* the value null of an indicator array
Null == [null |-> TRUE]

\* a number operand of an arithmetic operator: null counts as 0
ToNumber(x) == IF x = Null THEN Zero ELSE x

At(array, i) == array[i + 1]

\* data.slice(from, to).reduce((acc, item) => acc + item.close, 0)
sumOfCloses(data, from, to) ==
  Sum([k \in 1..(to - from) |-> At(data, from + k - 1).close])

\* sma20[i]: the mean of the 20 closes ending at i, null below index 19
sma20At(data, i) ==
  IF i >= 19 THEN Div(sumOfCloses(data, i - 19, i + 1), Num(20)) ELSE Null

RECURSIVE ema20At(_, _)
\* ema20[i]: seeded at index 19 with sma20[0], then
\* close * multiplier + ema20[i - 1] * (1 - multiplier)
ema20At(data, i) ==
  IF i < 19 THEN Null
  ELSE IF i = 19 THEN sma20At(data, 0)
  ELSE LET multiplier == Frac(2, 21)
       IN  Add(Mul(At(data, i).close, multiplier),
               Mul(ToNumber(ema20At(data, i - 1)),
                   Sub(Num(1), multiplier)))

calculateMovingAverages(data) ==
  [sma20 |-> [k \in 1..Len(data) |-> sma20At(data, k - 1)],
   ema20 |-> [k \in 1..Len(data) |-> ema20At(data, k - 1)]]

\* gains[j] and losses[j] are pushed at i = j + 1
gainAt(data, i) ==
  LET change == Sub(At(data, i).close, At(data, i - 1).close)
  IN  IF Gt(change, Zero) THEN change ELSE Zero

lossAt(data, i) ==
  LET change == Sub(At(data, i).close, At(data, i - 1).close)
  IN  IF Lt(change, Zero) THEN MathAbs(change) ELSE Zero

\* the element pushed to rsi at step i of the loop (1 <= i)
rsiAt(data, i, period) ==
  IF i >= period
  THEN LET avgGain ==
             Div(Sum([k \in 1..period |-> gainAt(data, i - period + k)]),
                 Num(period))
           avgLoss ==
             Div(Sum([k \in 1..period |-> lossAt(data, i - period + k)]),
                 Num(period))
           rs == Div(avgGain, avgLoss)
       IN  Sub(Hundred, Div(Hundred, Add(Num(1), rs)))
  ELSE Null

\* [null, ...rsi] with the default period
calculateRSI(data) ==
  <<Null>> \o [i \in 1..(Len(data) - 1) |-> rsiAt(data, i, 14)]

RECURSIVE emaAt(_, _, _)
\* ema12 and ema26: the first close, then an exponential average with
\* multiplier 2 / (periods + 1)
emaAt(data, i, periods) ==
  IF i = 0 THEN At(data, 0).close
  ELSE LET multiplier == Frac(2, periods + 1)
       IN  Add(Mul(At(data, i).close, multiplier),
               Mul(emaAt(data, i - 1, periods), Sub(Num(1), multiplier)))

macdAt(data, i) == Sub(emaAt(data, i, 12), emaAt(data, i, 26))

RECURSIVE signalAt(_, _)
signalAt(data, i) ==
  IF i = 0 THEN macdAt(data, 0)
  ELSE LET signalMultiplier == Frac(2, 10)
       IN  Add(Mul(macdAt(data, i), signalMultiplier),
               Mul(signalAt(data, i - 1), Sub(Num(1), signalMultiplier)))

calculateMACD(data) ==
  [macd |-> [k \in 1..Len(data) |-> macdAt(data, k - 1)],
   signal |-> [k \in 1..Len(data) |-> signalAt(data, k - 1)],
   histogram |->
     [k \in 1..Len(data) |->
        Sub(macdAt(data, k - 1), signalAt(data, k - 1))]]

\* rawData.map: an item {timestamp, price} has no open, high, low, close or
\* volume of its own; r[k] is the Math.random() of the volume of item k
processed(rawData, r) ==
  [k \in 1..Len(rawData) |->
     [timestamp |-> rawData[k].timestamp,
      close |-> rawData[k].price,
      open |-> rawData[k].price,
      high |-> Mul(rawData[k].price, Frac(102, 100)),
      low |-> Mul(rawData[k].price, Frac(98, 100)),
      volume |-> Mul(r[k], Num(1000000))]]

processPriceData(rawData, r) ==
  [data |-> processed(rawData, r),
   indicators |->
     [macd |-> calculateMACD(processed(rawData, r)),
      movingAverages |-> calculateMovingAverages(processed(rawData, r)),
      rsi |-> calculateRSI(processed(rawData, r))]]

(***************************************************************************)
(* AdvancedOrderForm: the values held by useForm.                          *)
(***************************************************************************)
\* defaultValues of useForm: side 'buy', orderType 'market', amount 0 and
\* no price (priced is FALSE while the price field is undefined)
FormInitial ==
  [side |-> "buy", orderType |-> "market", amount |-> Zero,
   price |-> Zero, priced |-> FALSE]

(***************************************************************************)
(* State machine of the store: one action per store operation.             *)
(***************************************************************************)
Init ==
  /\ positions = <<>>
  /\ orders = <<>>
  /\ metrics = InitialMetrics
  /\ lastUpdated = 0
  /\ now = 0
  /\ isLoading = TRUE
  /\ last = [op |-> "init", arg |-> 0, pre |-> <<>>]
  /\ list = ListDefault
  /\ calc = CalcInitial
  /\ feed = FeedInitial
  /\ worker = WorkerInitial
  /\ socket = SocketDefault
  /\ form = FormInitial
  /\ correlations = NoCorrelations
  /\ response = NoResponse
  /\ orderBooks = NoOrderBooks

\* the store variables take the value st; the clock advances
Commit(st, op, arg) ==
  /\ now < MaxSteps
  /\ positions' = st.positions
  /\ orders' = st.orders
  /\ metrics' = st.metrics
  /\ lastUpdated' = st.lastUpdated
  /\ now' = now + 1
  /\ last' = [op |-> op, arg |-> arg, pre |-> positions]
  /\ UNCHANGED components

AddPosition(position) ==
  /\ Len(positions) < MaxPositions
  /\ Commit(addPosition(Store, position, now + 1), "addPosition", position)
  /\ UNCHANGED isLoading

UpdatePosition(id, updates) ==
  /\ Commit(updatePosition(Store, id, updates, now + 1), "updatePosition",
            [id |-> id, updates |-> updates])
  /\ UNCHANGED isLoading

RemovePosition(id) ==
  /\ Commit(removePosition(Store, id, now + 1), "removePosition", id)
  /\ UNCHANGED isLoading

UpdatePrices(priceUpdates) ==
  /\ Commit(updatePrices(Store, priceUpdates, now + 1), "updatePrices",
            priceUpdates)
  /\ UNCHANGED isLoading

OptimisticTrade(trade) ==
  /\ Commit(optimisticTrade(Store, trade, now + 1), "optimisticTrade", trade)
  /\ UNCHANGED isLoading

RevertOptimisticTrade(tradeId) ==
  /\ Commit(revertOptimisticTrade(Store, tradeId), "revertOptimisticTrade",
            tradeId)
  /\ UNCHANGED isLoading

Next ==
  \/ \E position \in PositionInputs : AddPosition(position)
  \/ \E id \in Ids, updates \in UpdateInputs : UpdatePosition(id, updates)
  \/ \E id \in Ids : RemovePosition(id)
  \/ \E priceUpdates \in PriceUpdateInputs : UpdatePrices(priceUpdates)
  \/ \E trade \in TradeInputs : OptimisticTrade(trade)
  \/ RevertOptimisticTrade(1)

Spec == Init /\ [][Next]_vars

(***************************************************************************)
(* The application: App.tsx loads the mock holdings, the Add Asset dialog  *)
(* adds positions, the mock price feed ticks every 2 s and the order form  *)
(* submits trades.                                                         *)
(***************************************************************************)
\* base + r * range - range / 2
jitter(base, range, r) ==
  Sub(Add(base, Mul(r, range)), Div(range, Num(2)))

\* r[i] is the Math.random() drawn for the i-th holding.  Two amounts are
\* rounded (btc 1.2547 to 1.25, sol 45.2 to 45) so that the exact arithmetic
\* on the portfolio totals stays within TLC's 32-bit integers.
generateMockHoldings(r) ==
  << Position(1, "btc", Frac(125, 100),
              jitter(Num(67420), Num(2000), r[1]), Num(45000),
              Zero, Zero, Zero, Zero, Zero, 0),
     Position(2, "eth", Frac(875, 100),
              jitter(Num(3850), Num(300), r[2]), Num(2800),
              Zero, Zero, Zero, Zero, Zero, 0),
     Position(3, "ada", Num(5420),
              jitter(Frac(65, 100), Frac(1, 10), r[3]), Frac(85, 100),
              Zero, Zero, Zero, Zero, Zero, 0),
     Position(4, "sol", Num(45),
              jitter(Frac(14532, 100), Num(20), r[4]), Num(120),
              Zero, Zero, Zero, Zero, Zero, 0) >>

\* holding => position of loadData's map
initialPosition(holding, t) ==
  [holding EXCEPT !.totalValue = Mul(holding.amount, holding.currentPrice),
                  !.lastUpdated = t]

RECURSIVE addAll(_, _, _)
\* initialPositions.forEach(position => addPosition(position))
addAll(st, ps, t) ==
  IF ps = <<>> THEN st ELSE addAll(addPosition(st, Head(ps), t), Tail(ps), t)

loadData(st, r, t) ==
  LET holdings == generateMockHoldings(r)
  IN  addAll(st, [i \in 1..Len(holdings) |-> initialPosition(holdings[i], t)],
             t)

\* the symbols of the mock price feed
FeedSymbols == {"btc", "eth", "ada", "sol", "dot", "link", "matic", "avax"}

FeedBase ==
  [btc |-> Num(67420), eth |-> Num(3850), ada |-> Frac(65, 100),
   sol |-> Frac(14532, 100), dot |-> Frac(845, 100), link |-> Frac(1892, 100),
   matic |-> Frac(89, 100), avax |-> Frac(4218, 100)]

FeedRange ==
  [btc |-> Num(2000), eth |-> Num(300), ada |-> Frac(1, 10),
   sol |-> Num(20), dot |-> Num(1), link |-> Num(3),
   matic |-> Frac(15, 100), avax |-> Num(8)]

\* r[s] is the Math.random() drawn for symbol s
mockPrices(r) ==
  [s \in FeedSymbols |->
     Add(FeedBase[s], Mul(Sub(r[s], Frac(1, 2)), FeedRange[s]))]

\* the symbols the Add Asset dialog offers
POPULAR_CRYPTOS ==
  {"BTC", "ETH", "ADA", "DOT", "LINK", "SOL", "MATIC", "AVAX"}

cryptoPrices ==
  [BTC |-> Num(67420), ETH |-> Num(3850), ADA |-> Frac(65, 100),
   DOT |-> Frac(845, 100), LINK |-> Frac(1892, 100),
   SOL |-> Frac(14532, 100), MATIC |-> Frac(89, 100),
   AVAX |-> Frac(4218, 100)]

\* cryptoPrices[symbol] || purchasePrice
assetPrice(asset) ==
  IF asset.symbol \in DOMAIN cryptoPrices
  THEN OrElse(cryptoPrices[asset.symbol], asset.purchasePrice)
  ELSE asset.purchasePrice

\* the position stored under the symbol as selected, in upper case
handleAddAsset_keepCase(st, asset, t) ==
  addPosition(st,
    Position(1000 + t, asset.symbol, asset.amount,
             assetPrice(asset), asset.purchasePrice,
             Mul(asset.amount, assetPrice(asset)),
             Zero, Zero, Zero, Zero, t),
    t)

handleAddAsset(st, asset, t) ==
  addPosition(st,
    Position(1000 + t, toLowerCase(asset.symbol), asset.amount,
             assetPrice(asset), asset.purchasePrice,
             Mul(asset.amount, assetPrice(asset)),
             Zero, Zero, Zero, Zero, t),
    t)

\* the symbol prop of the order form: positions[0]?.symbol || 'btc'
formSymbol(ps) == IF ps = <<>> THEN "btc" ELSE ps[1].symbol

\* marketData?.price || 0: no handler of the application fills marketData
currentPrice == Zero

\* AdvancedOrderForm.onSubmit: optimisticTrade, then addOrder
onSubmit(st, data, t) ==
  addOrder(
    optimisticTrade(st,
      [symbol |-> data.symbol, amount |-> data.amount,
       price |-> OrElse(data.price, currentPrice), type |-> data.side], t),
    [symbol |-> data.symbol, type |-> data.side,
     orderType |-> data.orderType, amount |-> data.amount,
     status |-> "pending"],
    t)

(***************************************************************************)
(* Inputs of the application's handlers.                                   *)
(***************************************************************************)
MaxAdded == 1

AssetInputs ==
  [symbol : POPULAR_CRYPTOS, amount : {Num(100)}, purchasePrice : {Num(100)}]
  \cup { [symbol |-> "BTC", amount |-> Num(100),
          purchasePrice |-> cryptoPrices["BTC"]] }

\* a market order has no price (0 stands for the absent price, which
\* `data.price || currentPrice` treats alike); zod admits positive amounts
OrderInputs ==
  { [symbol |-> formSymbol(positions), side |-> o.side, orderType |-> o.t,
     amount |-> o.a, price |-> o.p] :
      o \in { [side |-> "buy", t |-> "limit", p |-> Num(70000),
               a |-> Frac(3, 4)],
              [side |-> "buy", t |-> "market", p |-> Zero, a |-> Frac(3, 4)],
              [side |-> "sell", t |-> "market", p |-> Zero, a |-> Frac(3, 4)],
              [side |-> "sell", t |-> "limit", p |-> Num(70000),
               a |-> Num(10)] } }

\* the Math.random() draws of loadData, one per mock holding
LoadDraws ==
  { [i \in 1..4 |-> Zero], [i \in 1..4 |-> IF i = 1 THEN Zero ELSE Frac(1, 2)] }

\* the Math.random() draws of one feed tick, one per symbol
FeedDraws ==
  { [s \in FeedSymbols |-> Zero],
    [s \in FeedSymbols |-> Frac(1, 2)],
    [s \in FeedSymbols |-> IF s \in {"btc", "ada", "dot", "matic"}
                           THEN Frac(1, 2) ELSE Zero] }

LoadData(r) ==
  /\ isLoading
  /\ Commit(loadData(Store, r, now + 1), "loadData", r)
  /\ isLoading' = FALSE

HandleAddAsset(asset) ==
  /\ ~isLoading
  /\ Len(positions) < Len(generateMockHoldings([i \in 1..4 |-> Zero])) + MaxAdded
  /\ Commit(handleAddAsset(Store, asset, now + 1), "handleAddAsset", asset)
  /\ UNCHANGED isLoading

MockPriceTick(r) ==
  /\ Commit(updatePrices(Store, mockPrices(r), now + 1), "mockPriceTick",
            mockPrices(r))
  /\ UNCHANGED isLoading

OnSubmit(data) ==
  /\ Commit(onSubmit(Store, data, now + 1), "onSubmit", data)
  /\ UNCHANGED isLoading

NextApp ==
  \/ \E r \in LoadDraws : LoadData(r)
  \/ \E asset \in AssetInputs : HandleAddAsset(asset)
  \/ \E r \in FeedDraws : MockPriceTick(r)
  \/ \E data \in OrderInputs : OnSubmit(data)

SpecApp == Init /\ [][NextApp]_vars

(***************************************************************************)
(* Properties of the store (checked under Spec unless said otherwise).     *)
(***************************************************************************)
\* the positions a price map has an entry for
Priced(priceUpdates, ps) ==
  { i \in 1..Len(ps) : ps[i].symbol \in DOMAIN priceUpdates }

\* C1: after updatePrices(priceUpdates), every holding h whose symbol has a
\* price p in priceUpdates has currentPrice = p, totalValue = amount * p,
\* totalGainLoss = amount * p - amount * averageBuyPrice and
\* totalGainLossPercent = (p - averageBuyPrice) / averageBuyPrice * 100.
C1_UpdatePricesAppliesEveryPrice ==
  last.op = "updatePrices" =>
    \A i \in Priced(last.arg, positions) :
      LET h == positions[i]
          p == last.arg[h.symbol]
      IN  /\ h.currentPrice = p
          /\ h.totalValue = Mul(h.amount, p)
          /\ h.totalGainLoss =
               Sub(Mul(h.amount, p), Mul(h.amount, h.averageBuyPrice))
          /\ h.totalGainLossPercent =
               Mul(Div(Sub(p, h.averageBuyPrice), h.averageBuyPrice), Hundred)

\* The same for the prices that are truthy (neither 0 nor NaN): holds.
C1_UpdatePricesAppliesTruthyPrice ==
  last.op = "updatePrices" =>
    \A i \in Priced(last.arg, positions) :
      LET h == positions[i]
          p == last.arg[h.symbol]
      IN  Truthy(p) =>
          /\ h.currentPrice = p
          /\ h.totalValue = Mul(h.amount, p)
          /\ h.totalGainLoss =
               Sub(Mul(h.amount, p), Mul(h.amount, h.averageBuyPrice))
          /\ h.totalGainLossPercent =
               Mul(Div(Sub(p, h.averageBuyPrice), h.averageBuyPrice), Hundred)

\* The scenario of the specification: amount 2, bought at 40000, repriced
\* from 50000 to 60000, is worth 120000 with a gain of 40000, i.e. 50 %.
C1_Scenario ==
  /\ last.op = "updatePrices"
  /\ \E i \in 1..Len(positions) :
       /\ last.pre[i].amount = Num(2)
       /\ last.pre[i].currentPrice = Num(50000)
       /\ last.pre[i].averageBuyPrice = Num(40000)
       /\ positions[i].currentPrice = Num(60000)
       /\ positions[i].totalValue = Num(120000)
       /\ positions[i].totalGainLoss = Num(40000)
       /\ positions[i].totalGainLossPercent = Num(50)

\* C2: in every reachable state of the store every holding satisfies
\* totalValue = amount * currentPrice.
C2_TotalValueIsAmountTimesPrice ==
  \A i \in 1..Len(positions) :
    positions[i].totalValue =
      Mul(positions[i].amount, positions[i].currentPrice)

\* C3: in every reachable state the aggregate is derived from the current
\* holdings: metrics.totalValue is the sum of the holdings' totalValue,
\* metrics.totalAssets is their number, and no operation leaves a stale
\* aggregate behind.
C3_MetricsDerivedFromPositions ==
  /\ metrics.totalValue =
       Sum([i \in 1..Len(positions) |-> positions[i].totalValue])
  /\ metrics.totalAssets = Len(positions)
  /\ metrics.totalGainLoss =
       Sum([i \in 1..Len(positions) |-> positions[i].totalGainLoss])
  /\ (positions = <<>>) = (metrics.totalAssets = 0)

\* two holdings, changed by the last operation, with a non-zero aggregate
C3_Witness ==
  /\ Len(positions) = 2
  /\ last.op \in {"updatePrices", "optimisticTrade", "updatePosition"}
  /\ positions /= last.pre
  /\ metrics.totalValue = Add(positions[1].totalValue, positions[2].totalValue)
  /\ Truthy(positions[1].totalValue) /\ Truthy(positions[2].totalValue)

\* C5: whenever the holding list is empty the aggregate has totalValue 0,
\* totalGainLoss 0, dailyChangePercent 0, totalAssets 0 and the performer
\* labels "N/A".
C5_EmptyListZeroAggregate ==
  positions = <<>> =>
    /\ metrics.totalValue = Zero
    /\ metrics.totalGainLoss = Zero
    /\ metrics.dailyChangePercent = Zero
    /\ metrics.totalAssets = 0
    /\ metrics.bestPerformer = "N/A"
    /\ metrics.worstPerformer = "N/A"

\* removePosition has removed the last holding
C5_Witness ==
  /\ last.op = "removePosition"
  /\ last.pre /= <<>>
  /\ positions = <<>>
  /\ metrics = InitialMetrics

\* first index whose dailyChangePercent is the maximum / the minimum
FirstMaxIdx(ps) ==
  CHOOSE i \in 1..Len(ps) :
    /\ \A j \in 1..Len(ps) :
         ~Gt(ps[j].dailyChangePercent, ps[i].dailyChangePercent)
    /\ \A j \in 1..(i - 1) :
         Lt(ps[j].dailyChangePercent, ps[i].dailyChangePercent)

FirstMinIdx(ps) ==
  CHOOSE i \in 1..Len(ps) :
    /\ \A j \in 1..Len(ps) :
         ~Lt(ps[j].dailyChangePercent, ps[i].dailyChangePercent)
    /\ \A j \in 1..(i - 1) :
         Gt(ps[j].dailyChangePercent, ps[i].dailyChangePercent)

AllChangesFinite(ps) ==
  \A i \in 1..Len(ps) : IsFinite(ps[i].dailyChangePercent)

\* C6: for every non-empty holding list (with finite percentages, so that
\* the maximum exists) metrics.bestPerformer is the upper-cased symbol of
\* the first holding with the maximal dailyChangePercent and
\* metrics.worstPerformer that of the first holding with the minimal one,
\* also when some holding has dailyChangePercent 0.
C6_PerformersAreFirstMaxAndMin ==
  (positions /= <<>> /\ AllChangesFinite(positions)) =>
    /\ metrics.bestPerformer =
         toUpperCase(positions[FirstMaxIdx(positions)].symbol)
    /\ metrics.worstPerformer =
         toUpperCase(positions[FirstMinIdx(positions)].symbol)

\* the positions updatePrices has applied a price to
Applied(priceUpdates, ps) ==
  { i \in 1..Len(ps) : hasPrice(priceUpdates, ps[i].symbol) }

MetricsFinite ==
  /\ IsFinite(metrics.totalValue)
  /\ IsFinite(metrics.dailyChange)
  /\ IsFinite(metrics.dailyChangePercent)
  /\ IsFinite(metrics.totalGainLoss)
  /\ IsFinite(metrics.totalGainLossPercent)

\* C7: when updatePrices applies a price to a holding whose previous
\* currentPrice is 0 its dailyChangePercent becomes 0, when its
\* averageBuyPrice is 0 its totalGainLossPercent becomes 0, and no
\* percentage of the holding or of the aggregate is infinite or NaN.
C7_ZeroBaseGivesZeroPercent ==
  last.op = "updatePrices" =>
    /\ \A i \in Applied(last.arg, positions) :
         /\ last.pre[i].currentPrice = Zero =>
              positions[i].dailyChangePercent = Zero
         /\ last.pre[i].averageBuyPrice = Zero =>
              positions[i].totalGainLossPercent = Zero
         /\ IsFinite(positions[i].dailyChangePercent)
         /\ IsFinite(positions[i].totalGainLossPercent)
    /\ Applied(last.arg, positions) /= {} => MetricsFinite

\* C8: updatePrices(priceUpdates) leaves every field of a holding unchanged
\* when priceUpdates has no entry for the holding's symbol (a lookup of a
\* missing key and of a key mapped to undefined give the same undefined).
C8_UnpricedHoldingUnchanged ==
  last.op = "updatePrices" =>
    /\ Len(positions) = Len(last.pre)
    /\ \A i \in 1..Len(positions) :
         positions[i].symbol \notin DOMAIN last.arg =>
           positions[i] = last.pre[i]

\* one holding was repriced while another, without an entry, was kept
C8_Witness ==
  /\ last.op = "updatePrices"
  /\ \E i, j \in 1..Len(positions) :
       /\ positions[i].symbol \notin DOMAIN last.arg
       /\ positions[i] = last.pre[i]
       /\ positions[i].lastUpdated < now
       /\ positions[j].symbol \in DOMAIN last.arg
       /\ positions[j] /= last.pre[j]

\* C9: optimisticTrade 'buy' of amount a at price q on an existing holding
\* sets amount' = amount + a, averageBuyPrice' = (amount * averageBuyPrice
\* + a * q) / (amount + a), and recomputes totalValue and totalGainLoss
\* from the new amount and average.
C9_BuyWeightedAverage ==
  (last.op = "optimisticTrade" /\ last.arg.type = "buy"
     /\ findSymbol(last.pre, last.arg.symbol) /= 0) =>
    LET i == findSymbol(last.pre, last.arg.symbol)
        h0 == last.pre[i]
        h == positions[i]
        a == last.arg.amount
        q == last.arg.price
    IN  /\ h.amount = Add(h0.amount, a)
        /\ h.averageBuyPrice =
             Div(Add(Mul(h0.amount, h0.averageBuyPrice), Mul(a, q)),
                 Add(h0.amount, a))
        /\ h.totalValue = Mul(h.amount, h.currentPrice)
        /\ h.totalGainLoss =
             Sub(h.totalValue, Mul(h.amount, h.averageBuyPrice))

\* a buy of 1 at 60000 on 2 bought at 40000: 3 at 140000 / 3
C9_Witness ==
  /\ last.op = "optimisticTrade" /\ last.arg.type = "buy"
  /\ last.arg.amount = Num(1) /\ last.arg.price = Num(60000)
  /\ \E i \in 1..Len(positions) :
       /\ i = findSymbol(last.pre, last.arg.symbol)
       /\ last.pre[i].amount = Num(2)
       /\ last.pre[i].averageBuyPrice = Num(40000)
       /\ positions[i].amount = Num(3)
       /\ positions[i].averageBuyPrice = Frac(140000, 3)
       /\ positions[i].totalValue = Num(150000)
       /\ positions[i].totalGainLoss = Num(10000)

\* the fields a sell may change
SellAffected == {"amount", "totalValue", "totalGainLoss", "lastUpdated"}

\* C10: optimisticTrade 'sell' never changes the holding's averageBuyPrice
\* nor its currentPrice; it changes only the quantity and the fields
\* derived from it (and the holding's timestamp), no other holding, and a
\* trade for a symbol with no holding changes no holding at all.
C10_SellKeepsAverage ==
  last.op = "optimisticTrade" =>
    LET i == findSymbol(last.pre, last.arg.symbol)
    IN  /\ Len(positions) = Len(last.pre)
        /\ i = 0 => positions = last.pre
        /\ \A j \in 1..Len(positions) : j /= i => positions[j] = last.pre[j]
        /\ (i /= 0 /\ last.arg.type = "sell") =>
             /\ positions[i].averageBuyPrice = last.pre[i].averageBuyPrice
             /\ positions[i].currentPrice = last.pre[i].currentPrice
             /\ \A f \in DOMAIN positions[i] \ SellAffected :
                  positions[i][f] = last.pre[i][f]
             /\ positions[i].amount =
                  MathMax(Zero, Sub(last.pre[i].amount, last.arg.amount))
             /\ positions[i].totalValue =
                  Mul(positions[i].amount, positions[i].currentPrice)

\* a sell has reduced a holding with a non-zero average price
C10_Witness ==
  /\ last.op = "optimisticTrade" /\ last.arg.type = "sell"
  /\ \E i \in 1..Len(positions) :
       /\ i = findSymbol(last.pre, last.arg.symbol)
       /\ Lt(positions[i].amount, last.pre[i].amount)
       /\ positions[i].averageBuyPrice = Num(40000)
       /\ last.arg.price /= positions[i].averageBuyPrice

\* a trade for a symbol without a holding has left the holdings alone
C10_WitnessNoHolding ==
  /\ last.op = "optimisticTrade"
  /\ last.pre /= <<>>
  /\ findSymbol(last.pre, last.arg.symbol) = 0
  /\ positions = last.pre

(***************************************************************************)
(* Properties of the application (checked under SpecApp).                  *)
(***************************************************************************)
\* C4: in every reachable state of the application, including right after
\* the mock holdings are loaded and after an asset is added through the
\* dialog, every holding satisfies
\* totalGainLoss = totalValue - amount * averageBuyPrice.
C4_GainLossIsValueMinusCost ==
  \A i \in 1..Len(positions) :
    positions[i].totalGainLoss =
      Sub(positions[i].totalValue,
          Mul(positions[i].amount, positions[i].averageBuyPrice))

(***************************************************************************)
(* State machine of the positions list: the list shows the store's         *)
(* positions, or the mock positions while the store has none.              *)
(***************************************************************************)
\* realPositions.length > 0 ? realPositions : mockPositions
listPositions(realPositions, l) ==
  IF Len(realPositions) > 0 THEN realPositions ELSE l.mockPositions

\* the sequence handed to useVirtualization
listItems(realPositions, l) ==
  filteredAndSortedPositions(listPositions(realPositions, l), l.searchTerm,
                             l.sortBy, l.sortOrder)

\* what the list renders
listWindow(realPositions, l) ==
  useVirtualization(listItems(realPositions, l), l.height - 200, itemHeight,
                    l.scrollTop)

handleSort(l, newSortBy) ==
  IF l.sortBy = newSortBy
  THEN [l EXCEPT !.sortOrder = IF l.sortOrder = "asc" THEN "desc" ELSE "asc"]
  ELSE [l EXCEPT !.sortBy = newSortBy, !.sortOrder = "desc"]

\* the height property of the component
Heights == {340, 600}

\* a second vector of draws: the amounts differ from one position to the
\* next, so that no two mock positions have the same value
UnevenDraws ==
  [k \in 1..MaxItems |->
     [p |-> Frac(1, 2), b |-> IF k % 2 = 0 THEN Zero ELSE Frac(1, 2),
      a |-> Frac(k, 100), d |-> Frac(1, 2)]]

MockDraws == {EvenDraws, UnevenDraws}

SearchTerms == {"", "co", "zz"}

SortKeys == {"symbol", "value", "pnl"}

\* scroll offsets the browser reports, in pixels
ScrollOffsets == {0, 30, 500}

\* the positions the store receives while the list is shown
ListPositionInputs ==
  { NewPosition(1, "btc", Num(2), Num(50000), Num(40000)),
    NewPosition(2, "btc", Num(2), Num(50000), Num(40000)) }

InitList ==
  /\ positions = <<>>
  /\ orders = <<>>
  /\ metrics = InitialMetrics
  /\ lastUpdated = 0
  /\ now = 0
  /\ isLoading = TRUE
  /\ last = [op |-> "init", arg |-> 0, pre |-> <<>>]
  /\ list \in { ListInitial(height, generateMockPositions(MaxItems, r)) :
                  height \in Heights, r \in MockDraws }
  /\ calc = CalcInitial
  /\ feed = FeedInitial
  /\ worker = WorkerInitial
  /\ socket = SocketDefault
  /\ form = FormInitial
  /\ correlations = NoCorrelations
  /\ response = NoResponse
  /\ orderBooks = NoOrderBooks

\* a state update of the list component
ListCommit(l, op, arg) ==
  /\ list' = l
  /\ last' = [op |-> op, arg |-> arg, pre |-> list]
  /\ UNCHANGED <<positions, orders, metrics, lastUpdated, now, isLoading,
                 calc, feed, worker, socket, form, correlations, response,
                 orderBooks>>

\* the scroll container reports an offset within its scrollable range
HandleScroll(scrollTop) ==
  /\ scrollTop /= list.scrollTop
  /\ scrollTop <= listWindow(positions, list).totalHeight - (list.height - 200)
  /\ ListCommit([list EXCEPT !.scrollTop = scrollTop], "handleScroll",
                scrollTop)

SetSearchTerm(searchTerm) ==
  /\ searchTerm /= list.searchTerm
  /\ ListCommit([list EXCEPT !.searchTerm = searchTerm], "setSearchTerm",
                searchTerm)

HandleSort(newSortBy) ==
  ListCommit(handleSort(list, newSortBy), "handleSort", newSortBy)

NextList ==
  \/ \E scrollTop \in ScrollOffsets : HandleScroll(scrollTop)
  \/ \E searchTerm \in SearchTerms : SetSearchTerm(searchTerm)
  \/ \E newSortBy \in SortKeys : HandleSort(newSortBy)
  \/ \E position \in ListPositionInputs : AddPosition(position)
  \/ \E id \in Ids : RemovePosition(id)

SpecList == InitList /\ [][NextList]_vars

(***************************************************************************)
(* Properties of the positions list (checked under SpecList).              *)
(***************************************************************************)
\* the rows the list renders
visibleItems == listWindow(positions, list).visibleItems

\* ceil(containerHeight / rowHeight) of the list
rowsPerContainer == Ceil(list.height - 200, itemHeight)

\* C11: for every item count, container height and scroll offset the number
\* of rows the list renders (the length of visibleItems) is at most
\* ceil(containerHeight / rowHeight) + 1.
C11_WindowAtMostCeilPlusOne ==
  Len(visibleItems) <= rowsPerContainer + 1

\* The window holds at most ceil(containerHeight / rowHeight) + 2 rows,
\* whatever the number of items: holds.
C11_WindowAtMostCeilPlusTwo ==
  Len(visibleItems) <= rowsPerContainer + 2

\* a scrolled list of more items than fit renders exactly
\* ceil(containerHeight / rowHeight) + 2 of them
C11_Witness ==
  /\ list.scrollTop > 0
  /\ Len(listItems(positions, list)) > rowsPerContainer + 2
  /\ Len(visibleItems) = rowsPerContainer + 2

\* the positions and the list state before the last step
prevPositions ==
  IF last.op \in {"addPosition", "removePosition"} THEN last.pre ELSE positions

prevList ==
  IF last.op \in {"handleScroll", "setSearchTerm", "handleSort"}
  THEN last.pre ELSE list

\* the last step has changed the sequence handed to the list
SequenceChanged ==
  /\ last.op \in {"setSearchTerm", "handleSort", "addPosition",
                  "removePosition"}
  /\ listItems(prevPositions, prevList) /= listItems(positions, list)

\* C12: whenever the sequence given to the list changes (new search term,
\* new sort key or order, new backing collection) the scroll offset is 0
\* again and the window starts at index 0, so that a non-empty sequence is
\* never rendered as an empty window.
C12_SequenceChangeResetsWindow ==
  SequenceChanged =>
    /\ list.scrollTop = 0
    /\ listWindow(positions, list).startIndex = 0
    /\ listItems(positions, list) /= <<>> => visibleItems /= <<>>

\* a non-empty sequence is rendered as an empty window
C12_EmptyWindow ==
  /\ SequenceChanged
  /\ listItems(positions, list) /= <<>>
  /\ visibleItems = <<>>

Reverse(s) == [i \in 1..Len(s) |-> s[Len(s) + 1 - i]]

\* handleSort was called with the key the list was already sorted by
SortToggled == last.op = "handleSort" /\ last.pre.sortBy = last.arg

\* no two of the items compare equal on the sort key
NoTies(items, sortBy) ==
  \A i, j \in 1..Len(items) :
    i /= j => compare(items[i], items[j], sortBy, "asc") /= 0

\* C13: for the same positions, search term and sort key, toggling the sort
\* order yields exactly the reverse of the previous order, also when
\* several positions compare equal on the sort key.
C13_ToggleReverses ==
  SortToggled =>
    listItems(positions, list) = Reverse(listItems(positions, last.pre))

\* Toggling yields the reverse order when no two of the listed positions
\* compare equal on the sort key: holds.
C13_ToggleReversesWithoutTies ==
  SortToggled /\ NoTies(listItems(positions, list), list.sortBy) =>
    listItems(positions, list) = Reverse(listItems(positions, last.pre))

\* the order of at least three positions without ties has been toggled
C13_Witness ==
  /\ SortToggled
  /\ Len(listItems(positions, list)) >= 3
  /\ NoTies(listItems(positions, list), list.sortBy)
  /\ listItems(positions, list) = Reverse(listItems(positions, last.pre))

\* positions that compare equal keep their order when the order is toggled
C13_TiesKeepOrder ==
  /\ SortToggled
  /\ Len(listItems(positions, list)) >= 2
  /\ listItems(positions, list) = listItems(positions, last.pre)

(***************************************************************************)
(* State machine of the risk calculator: the inputs set the component      *)
(* state, the store supplies the portfolio value.                          *)
(***************************************************************************)
\* the side the application passes
calcSide == "buy"

\* parseFloat(e.target.value) || 0 of the price inputs
CalcPrices == {Zero, Num(90), Num(100), Num(110)}

\* the slider's values and the presets
RiskPercents == {Frac(1, 10), Num(1), Num(2), Num(20)}

RISK_PRESETS == {Num(1), Num(2), Num(3), Num(5)}

CalcSizes == {Zero, Num(10)}

POSITION_SIZE_METHODS == {"fixed", "percent", "risk-based"}

\* a state update of the calculator
CalcCommit(c) ==
  /\ c /= calc
  /\ calc' = c
  /\ UNCHANGED <<positions, orders, metrics, lastUpdated, now, isLoading,
                 last, list, feed, worker, socket, form, correlations,
                 response, orderBooks>>

SetEntryPrice(v) == CalcCommit([calc EXCEPT !.entryPrice = v])

SetStopLoss(v) == CalcCommit([calc EXCEPT !.stopLoss = v])

SetTakeProfit(v) == CalcCommit([calc EXCEPT !.takeProfit = v])

SetPositionSize(v) == CalcCommit([calc EXCEPT !.positionSize = v])

SetRiskPercent(v) == CalcCommit([calc EXCEPT !.riskPercent = v])

SetCalculationMethod(m) == CalcCommit([calc EXCEPT !.calculationMethod = m])

HandleRiskPresetClick(preset) ==
  CalcCommit([calc EXCEPT !.riskPercent = preset,
                          !.calculationMethod = "risk-based"])

NextCalc ==
  \/ \E v \in CalcPrices : SetEntryPrice(v)
  \/ \E v \in CalcPrices : SetStopLoss(v)
  \/ \E v \in {Zero, Num(120)} : SetTakeProfit(v)
  \/ \E v \in CalcSizes : SetPositionSize(v)
  \/ \E v \in RiskPercents : SetRiskPercent(v)
  \/ \E m \in POSITION_SIZE_METHODS : SetCalculationMethod(m)
  \/ \E preset \in RISK_PRESETS : HandleRiskPresetClick(preset)
  \/ \E position \in ListPositionInputs : AddPosition(position)

SpecCalc == Init /\ [][NextCalc]_vars

\* what the calculator shows
shown == calculation(calc, calcSide, portfolioValue(metrics))

\* the premise of the risk-based rule
RiskBased ==
  /\ calc.calculationMethod = "risk-based"
  /\ Truthy(calc.entryPrice) /\ Truthy(calc.stopLoss)
  /\ Gt(calc.riskPercent, Zero)

\* C14: in risk-based mode with non-zero entryPrice and stopLoss and
\* riskPercent > 0, riskAmount = portfolioValue * riskPercent / 100 and
\* positionSize = riskAmount / |entryPrice - stopLoss|, and positionSize is
\* 0 when entryPrice = stopLoss.
C14_RiskBasedSize ==
  RiskBased =>
    /\ shown.riskAmount =
         Div(Mul(portfolioValue(metrics), calc.riskPercent), Hundred)
    /\ calc.entryPrice /= calc.stopLoss =>
         shown.positionSize =
           Div(shown.riskAmount,
               MathAbs(Sub(calc.entryPrice, calc.stopLoss)))
    /\ calc.entryPrice = calc.stopLoss => shown.positionSize = Zero

\* entry 100, stop 90, 2 % of a portfolio of 100000: risk 2000, size 200
C14_Scenario ==
  /\ RiskBased
  /\ calc.entryPrice = Num(100) /\ calc.stopLoss = Num(90)
  /\ calc.riskPercent = Num(2)
  /\ portfolioValue(metrics) = Num(100000)
  /\ shown.riskAmount = Num(2000)
  /\ shown.positionSize = Num(200)

\* entry price and stop loss coincide: the size is 0
C14_WitnessEqualPrices ==
  /\ RiskBased
  /\ calc.entryPrice = calc.stopLoss
  /\ shown.positionSize = Zero
  /\ Gt(shown.riskAmount, Zero)

(***************************************************************************)
(* State machine of the mock price feed: the hook is mounted, enabled,     *)
(* disabled and unmounted, and a live interval timer fires.                *)
(***************************************************************************)
\* a state update of the hook
FeedCommit(f, op, arg) ==
  /\ feed' = f
  /\ last' = [op |-> op, arg |-> arg, pre |-> feed]
  /\ UNCHANGED <<positions, orders, metrics, lastUpdated, now, isLoading,
                 list, calc, worker, socket, form, correlations, response,
                 orderBooks>>

\* first render: the effect runs
MountFeed(enabled) ==
  /\ ~feed.mounted
  /\ enabled => feed.nextId <= MaxTimers
  /\ FeedCommit(feedEffect([feed EXCEPT !.mounted = TRUE], enabled),
                "mountFeed", enabled)

\* a render with a new value of enabled: cleanup, then the effect again
SetEnabled(enabled) ==
  /\ feed.mounted
  /\ enabled /= feed.enabled
  /\ enabled => feed.nextId <= MaxTimers
  /\ FeedCommit(feedEffect(feedCleanup(feed), enabled), "setEnabled",
                enabled)

\* unmount: the cleanup runs
UnmountFeed ==
  /\ feed.mounted
  /\ FeedCommit([feedCleanup(feed) EXCEPT !.mounted = FALSE], "unmountFeed",
                0)

\* the callback of a live interval timer
TimerFires(id, r) ==
  /\ id \in feed.timers
  /\ MockPriceTick(r)

NextFeed ==
  \/ \E enabled \in BOOLEAN : MountFeed(enabled)
  \/ \E enabled \in BOOLEAN : SetEnabled(enabled)
  \/ UnmountFeed
  \/ \E id \in 1..MaxTimers, r \in FeedDraws : TimerFires(id, r)
  \/ \E r \in LoadDraws : LoadData(r)

SpecFeed == Init /\ [][NextFeed]_vars

\* the hook is unmounted or disabled
FeedStopped == ~(feed.mounted /\ feed.enabled)

\* C15: once the price feed is stopped (unmounted or disabled) no timer
\* callback fires any more, so that the prices are not updated again, and
\* at most one interval timer is live at any time, whatever the sequence of
\* enable / disable cycles.
C15_StoppedFeedIsSilent ==
  /\ Cardinality(feed.timers) <= 1
  /\ FeedStopped => feed.timers = {}
  /\ last.op = "mockPriceTick" => ~FeedStopped

\* the feed has updated the loaded holdings and is stopped for the second
\* time
C15_Witness ==
  /\ FeedStopped
  /\ last.op \in {"setEnabled", "unmountFeed"}
  /\ last.pre.timers /= {}
  /\ feed.nextId = 3
  /\ positions /= <<>>
  /\ lastUpdated > 1

(***************************************************************************)
(* State machine of the web worker hook.  Time is not modelled: a timeout  *)
(* timer that is set fires at some later step.                             *)
(***************************************************************************)
\* the timeout argument of postMessage, in ms (default 30000)
Timeouts == {30000, 60000}

\* the error of a worker response ("": a result)
ResponseErrors == {"", "Unknown message type"}

\* a state update of the hook
WorkerCommit(w, op, arg) ==
  /\ worker' = w
  /\ UNCHANGED <<positions, orders, metrics, lastUpdated, now, isLoading,
                 last, list, calc, feed, socket, form, correlations,
                 response, orderBooks>>

\* the effect creates the worker; new Worker(...) may throw
MountWorker(created) ==
  /\ ~worker.mounted
  /\ WorkerCommit([worker EXCEPT !.mounted = TRUE, !.available = created],
                  "mountWorker", created)

UnmountWorker ==
  /\ worker.mounted
  /\ WorkerCommit([terminate(worker) EXCEPT !.mounted = FALSE],
                  "unmountWorker", 0)

Terminate ==
  /\ worker.mounted
  /\ worker.available
  /\ WorkerCommit(terminate(worker), "terminate", 0)

PostMessage(timeout) ==
  /\ Len(worker.promises) < MaxRequests
  /\ WorkerCommit(postMessage(worker, timeout), "postMessage", timeout)

\* the worker answers a message it holds
WorkerResponds(id, error) ==
  /\ worker.available
  /\ \E k \in 1..Len(worker.promises) :
       worker.promises[k].id = id /\ worker.promises[k].sent
  /\ WorkerCommit(onmessage(worker, id, error), "onmessage", id)

WorkerError ==
  /\ worker.available
  /\ WorkerCommit(onerror(worker), "onerror", 0)

\* the timeout timer of request id fires
TimeoutFires(id) ==
  /\ \E k \in 1..Len(worker.promises) :
       worker.promises[k].id = id /\ worker.promises[k].timer
  /\ WorkerCommit(onTimeout(worker, id), "timeoutFires", id)

\* the 10 s interval finds the requests ids stale
SweepStale(ids) ==
  /\ worker.mounted
  /\ ids /= {}
  /\ ids \subseteq staleRequests(worker)
  /\ WorkerCommit(sweepStale(worker, ids), "sweepStale", ids)

NextWorker ==
  \/ \E created \in BOOLEAN : MountWorker(created)
  \/ UnmountWorker
  \/ Terminate
  \/ \E timeout \in Timeouts : PostMessage(timeout)
  \/ \E id \in 1..MaxRequests, error \in ResponseErrors :
       WorkerResponds(id, error)
  \/ WorkerError
  \/ \E id \in 1..MaxRequests : TimeoutFires(id)
  \/ \E ids \in SUBSET (1..MaxRequests) : SweepStale(ids)

SpecWorker == Init /\ [][NextWorker]_vars

\* the event loop runs every timer that is due
SpecWorkerLive ==
  SpecWorker /\ \A id \in 1..MaxRequests : WF_vars(TimeoutFires(id))

\* the promise of the k-th call is still pending
Pending(k) ==
  k <= Len(worker.promises) /\ worker.promises[k].state = "pending"

\* the promise of the k-th call is settled
Settled(k) ==
  k <= Len(worker.promises)
  /\ worker.promises[k].state \in {"resolved", "rejected"}

\* the promise of request id
promiseOf(w, id) ==
  w.promises[CHOOSE k \in 1..Len(w.promises) : w.promises[k].id = id]

\* a call without a worker is rejected in the call itself and leaves no
\* entry in the pending map
RejectedAtOnce ==
  \A k \in 1..Len(worker.promises) :
    LET p == worker.promises[k]
    IN  /\ p.id = 0 =>
             p.state = "rejected" /\ p.error = "Worker not available"
        /\ p.id /= 0 => (p.id \in worker.pending <=> p.state = "pending")

\* a step in which the timeout timer of a pending request fires rejects the
\* request with 'Request timeout' and removes it from the pending map
TimedOut ==
  \A id \in worker.pending :
    promiseOf(worker, id).timer /\ ~promiseOf(worker', id).timer =>
      /\ id \notin worker'.pending
      /\ promiseOf(worker', id).state = "rejected"
      /\ promiseOf(worker', id).error = "Request timeout"

\* C16: every request made through postMessage is eventually settled: it
\* is rejected at once when the worker is unavailable, and when its timeout
\* finds it unanswered it is rejected with 'Request timeout' and removed
\* from the pending map.
C16_EveryRequestSettles ==
  /\ []RejectedAtOnce
  /\ [][TimedOut]_vars
  /\ \A k \in 1..MaxRequests : Pending(k) ~> Settled(k)

\* one call was rejected at once, another was rejected by its own timeout
\* timer
C16_Witness ==
  /\ \E k \in 1..Len(worker.promises) :
       /\ worker.promises[k].id /= 0
       /\ worker.promises[k].timeout <= staleTimeout
       /\ ~worker.promises[k].timer
       /\ worker.promises[k].error = "Request timeout"
  /\ \E k \in 1..Len(worker.promises) :
       /\ worker.promises[k].id = 0
       /\ worker.promises[k].error = "Worker not available"

(***************************************************************************)
(* State machine of the WebSocket hook: the effects, the returned connect  *)
(* and disconnect, the events of the sockets and the reconnect timers.     *)
(***************************************************************************)
\* the options of the caller: url valid or not, maxReconnectAttempts,
\* reconnectInterval
SocketOptions ==
  { SocketInitial(TRUE, 3, reconnectInterval),
    SocketInitial(TRUE, 2, 20000),
    SocketInitial(FALSE, 2, reconnectInterval) }

\* the codes a close event of a socket in the given state may carry
CloseCodes(state) ==
  CASE state = "connecting" -> {1006}
    [] state = "open" -> {1000, 1006}
    [] state = "closingClean" -> {1000, 1006}
    [] state = "closingFailed" -> {1006}
    [] OTHER -> {}

InitSocket ==
  /\ positions = <<>>
  /\ orders = <<>>
  /\ metrics = InitialMetrics
  /\ lastUpdated = 0
  /\ now = 0
  /\ isLoading = TRUE
  /\ last = [op |-> "init", arg |-> 0, pre |-> <<>>]
  /\ list = ListDefault
  /\ calc = CalcInitial
  /\ feed = FeedInitial
  /\ worker = WorkerInitial
  /\ socket \in SocketOptions
  /\ form = FormInitial
  /\ correlations = NoCorrelations
  /\ response = NoResponse
  /\ orderBooks = NoOrderBooks

\* a state update of the hook
SocketCommit(s) ==
  /\ socket' = s
  /\ UNCHANGED <<positions, orders, metrics, lastUpdated, now, isLoading,
                 last, list, calc, feed, worker, form, correlations,
                 response, orderBooks>>

\* the connection effect of the first render
MountSocket ==
  /\ ~socket.mounted
  /\ socket.connects < MaxConnects
  /\ SocketCommit(connect([socket EXCEPT !.mounted = TRUE,
                                          !.halted = FALSE]))

\* a dependency of the connection effect has changed: cleanup, then the
\* effect again
RerunEffect ==
  /\ socket.mounted
  /\ socket.connects < MaxConnects
  /\ SocketCommit(connect([disconnect(socket) EXCEPT !.halted = FALSE]))

\* the cleanups of both effects
UnmountSocket ==
  /\ socket.mounted
  /\ SocketCommit([disconnect(disconnect(socket)) EXCEPT !.mounted = FALSE])

\* the connect the hook returns
Connect ==
  /\ socket.mounted
  /\ socket.connects < MaxConnects
  /\ connect(socket) /= socket
  /\ SocketCommit(connect([socket EXCEPT !.halted = FALSE]))

\* the disconnect the hook returns
Disconnect ==
  /\ socket.mounted
  /\ disconnect(socket) /= socket
  /\ SocketCommit(disconnect(socket))

SocketOpens(i) ==
  /\ i <= Len(socket.ws)
  /\ socket.ws[i] = "connecting"
  /\ SocketCommit(onopen(socket, i))

SocketErrors(i) ==
  /\ i <= Len(socket.ws)
  /\ socket.ws[i] \in {"connecting", "open"}
  /\ onsocketerror(socket) /= socket
  /\ SocketCommit(onsocketerror(socket))

SocketCloses(i, code) ==
  /\ i <= Len(socket.ws)
  /\ code \in CloseCodes(socket.ws[i])
  /\ SocketCommit(onclose(socket, i, code))

\* setTimeout(() => connect(), delay)
ReconnectTimerFires(id) ==
  /\ socket.connects < MaxConnects
  /\ \E t \in socket.timers :
       /\ t.id = id
       /\ SocketCommit(connect([socket EXCEPT !.timers = socket.timers \ {t}]))

NextSocket ==
  \/ MountSocket
  \/ RerunEffect
  \/ UnmountSocket
  \/ Connect
  \/ Disconnect
  \/ \E i \in 1..MaxConnects : SocketOpens(i)
  \/ \E i \in 1..MaxConnects : SocketErrors(i)
  \/ \E i \in 1..MaxConnects, code \in {1000, 1006} : SocketCloses(i, code)
  \/ \E id \in 1..(2 * MaxConnects) : ReconnectTimerFires(id)

SpecSocket == InitSocket /\ [][NextSocket]_vars

\* the attempts stay within the maximum, and every reconnect timer has the
\* delay min(reconnectInterval * 2^(n - 1), 30000) of its attempt n
BackoffBounded ==
  /\ socket.attempts <= socket.maxReconnectAttempts
  /\ \A t \in socket.timers :
       /\ 1 <= t.attempt /\ t.attempt <= socket.maxReconnectAttempts
       /\ t.delay = Min(socket.reconnectInterval * Pow2(t.attempt - 1),
                        maxDelay)

\* the step schedules a reconnect timer
Schedules == socket'.nextTimer /= socket.nextTimer

\* C17: the hook reconnects with exponential backoff at most
\* maxReconnectAttempts times: the counter of attempts never exceeds the
\* maximum, the delay before attempt n is
\* min(reconnectInterval * 2^(n - 1), 30000), and once the counter has
\* reached the maximum without a successful open since, no further attempt
\* is scheduled.
C17_NoAttemptAfterMaximum ==
  /\ []BackoffBounded
  /\ [][socket.exhausted => ~Schedules]_vars

\* The counter and the delays are bounded as claimed, and no step that
\* leaves the counter at the maximum schedules an attempt; a disconnect
\* resets the counter like a successful open does: holds.
C17_NoAttemptWhileAtMaximum ==
  /\ []BackoffBounded
  /\ [][/\ socket.attempts = socket.maxReconnectAttempts
        /\ socket'.attempts = socket.maxReconnectAttempts
        => ~Schedules]_vars

\* the last attempt is scheduled with the capped delay
C17_Witness ==
  /\ socket.attempts = socket.maxReconnectAttempts
  /\ \E t \in socket.timers :
       /\ t.attempt = socket.maxReconnectAttempts
       /\ t.delay = maxDelay
       /\ socket.reconnectInterval * Pow2(t.attempt - 1) > maxDelay

\* every attempt has failed: the last socket has closed and nothing is
\* scheduled
C17_WitnessGivenUp ==
  /\ socket.attempts = socket.maxReconnectAttempts
  /\ socket.timers = {}
  /\ socket.connects = socket.maxReconnectAttempts + 1
  /\ socket.urlValid
  /\ \A i \in 1..Len(socket.ws) : socket.ws[i] = "closed"

\* after a disconnect the hook schedules attempts again although no open
\* has succeeded since the maximum was reached
C17_ResetByDisconnect ==
  /\ socket.exhausted
  /\ socket.attempts = 1
  /\ \E t \in socket.timers : t.attempt = 1

(***************************************************************************)
(* Rollback of optimistic trades (checked under Spec).                     *)
(***************************************************************************)
\* the fields of a holding a trade changes
tradeFields(h) ==
  <<h.amount, h.averageBuyPrice, h.totalValue, h.totalGainLoss>>

\* C18: applying optimisticTrade and then revertOptimisticTrade restores
\* the holdings (amount, averageBuyPrice, totalValue, totalGainLoss) and
\* the portfolio metrics to their values before the trade.
C18_RevertRestoresTrade ==
  [][last.op = "optimisticTrade" /\ last'.op = "revertOptimisticTrade" =>
       /\ Len(positions') = Len(last.pre)
       /\ \A i \in 1..Len(last.pre) :
            tradeFields(positions'[i]) = tradeFields(last.pre[i])
       /\ metrics' = calculateMetrics(last.pre)]_vars

(***************************************************************************)
(* State machine of the order form: its fields, the percentage presets and *)
(* handleSubmit(onSubmit) with the zod resolver, over the loaded store.    *)
(***************************************************************************)
PERCENTAGE_PRESETS == {25, 50, 75, 100}

availableBalance == 50000

\* z.number().positive() of a field: a number above 0.  z.number() rejects
\* NaN; whether it rejects Infinity depends on the zod release installed,
\* so finiteOnly is chosen by the caller.
positiveNumber(x, finiteOnly) ==
  /\ ~IsNaN(x)
  /\ finiteOnly => IsFinite(x)
  /\ Gt(x, Zero)

orderSchema_nonnegative(f, finiteOnly) ==
  /\ positiveNumber(f.amount, finiteOnly) \/ f.amount = Zero
  /\ f.priced => positiveNumber(f.price, finiteOnly)

\* orderSchema.safeParse(values).success: symbol, side, orderType and
\* timeInForce always hold one of their enumerated values
orderSchema(f, finiteOnly) ==
  /\ positiveNumber(f.amount, finiteOnly)
  /\ f.priced => positiveNumber(f.price, finiteOnly)

\* the data handed to onSubmit (an absent price is written 0, which
\* `data.price || currentPrice` treats alike)
formData(f, ps) ==
  [symbol |-> formSymbol(ps), side |-> f.side, orderType |-> f.orderType,
   amount |-> f.amount, price |-> IF f.priced THEN f.price ELSE Zero]

\* handleSubmit(onSubmit): onSubmit runs only on values the resolver accepts
handleSubmit(st, f, finiteOnly, t) ==
  IF orderSchema(f, finiteOnly)
  THEN onSubmit(st, formData(f, st.positions), t)
  ELSE st

\* the position of the form's symbol, 0 when there is none
currentPosition(ps) == findSymbol(ps, formSymbol(ps))

\* handlePercentageSelect: the amount a preset writes, or the form unchanged
handlePercentageSelect(f, ps, percentage) ==
  IF f.side = "buy"
  THEN [f EXCEPT !.amount =
          Div(Mul(Div(Num(availableBalance), currentPrice), Num(percentage)),
              Num(100))]
  ELSE IF currentPosition(ps) /= 0
       THEN [f EXCEPT !.amount =
               Div(Mul(ps[currentPosition(ps)].amount, Num(percentage)),
                   Num(100))]
       ELSE f

\* parseFloat(e.target.value) || 0 of the amount input
ParsedAmounts == {Zero, Num(-1), Frac(3, 4)}

\* parseFloat(e.target.value) || 0 of the price input
ParsedPrices == {Zero, Num(70000)}

OrderTypes == {"market", "limit"}

FormCommit(f) ==
  /\ f /= form
  /\ form' = f
  /\ UNCHANGED <<positions, orders, metrics, lastUpdated, now, isLoading,
                 last, list, calc, feed, worker, socket, correlations,
                 response, orderBooks>>

SetSide(v) == FormCommit([form EXCEPT !.side = v])

SetOrderType(v) == FormCommit([form EXCEPT !.orderType = v])

ChangeAmount(v) == FormCommit([form EXCEPT !.amount = v])

\* the price input is rendered for limit and stop-limit orders
ChangePrice(v) ==
  /\ form.orderType = "limit"
  /\ FormCommit([form EXCEPT !.price = v, !.priced = TRUE])

HandlePercentageSelect(percentage) ==
  FormCommit(handlePercentageSelect(form, positions, percentage))

MaxSubmits == 1

\* submit: the store operations of onSubmit and reset() when the resolver
\* accepts the values, nothing otherwise (the clock is read by the store
\* operations only)
HandleSubmit(finiteOnly) ==
  /\ Len(orders) < MaxSubmits
  /\ now < MaxSteps
  /\ positions' = handleSubmit(Store, form, finiteOnly, now + 1).positions
  /\ orders' = handleSubmit(Store, form, finiteOnly, now + 1).orders
  /\ metrics' = handleSubmit(Store, form, finiteOnly, now + 1).metrics
  /\ lastUpdated' = handleSubmit(Store, form, finiteOnly, now + 1).lastUpdated
  /\ now' = IF orderSchema(form, finiteOnly) THEN now + 1 ELSE now
  /\ last' = [op |-> "handleSubmit",
              arg |-> [amount |-> form.amount, orders |-> Len(orders)],
              pre |-> positions]
  /\ form' = IF orderSchema(form, finiteOnly) THEN FormInitial ELSE form
  /\ UNCHANGED <<isLoading, list, calc, feed, worker, socket, correlations,
                 response, orderBooks>>

\* the presets pressed under the form
PressedPresets == {percentage \in PERCENTAGE_PRESETS : percentage >= 75}

\* the Math.random() draws of loadData taken under the form
FormDraws == { [i \in 1..4 |-> Zero] }

NextForm ==
  \/ \E r \in FormDraws : LoadData(r)
  \/ \E v \in {"buy", "sell"} : SetSide(v)
  \/ \E v \in OrderTypes : SetOrderType(v)
  \/ \E v \in ParsedAmounts : ChangeAmount(v)
  \/ \E v \in ParsedPrices : ChangePrice(v)
  \/ \E percentage \in PressedPresets : HandlePercentageSelect(percentage)
  \/ \E finiteOnly \in BOOLEAN : HandleSubmit(finiteOnly)

SpecForm == Init /\ [][NextForm]_vars

(***************************************************************************)
(* Properties of the order form (checked under SpecForm).                  *)
(***************************************************************************)
\* C19: an order whose amount is not strictly positive is never submitted
\* from the order form: the submit changes neither the positions nor the
\* orders, and every order of the store has an amount above 0.
C19_OnlyPositiveAmountsSubmitted ==
  /\ \A i \in 1..Len(orders) : Gt(orders[i].amount, Zero)
  /\ (last.op = "handleSubmit" /\ ~Gt(last.arg.amount, Zero)) =>
       /\ positions = last.pre
       /\ Len(orders) = last.arg.orders

\* a submit with amount -1 was blocked while the store holds the loaded
\* positions
C19_WitnessBlocked ==
  /\ last.op = "handleSubmit"
  /\ last.arg.amount = Num(-1)
  /\ positions /= <<>>
  /\ positions = last.pre
  /\ orders = <<>>

\* a submit with a positive amount added its order
C19_WitnessSubmitted ==
  /\ last.op = "handleSubmit"
  /\ last.arg.amount = Frac(3, 4)
  /\ Len(orders) = last.arg.orders + 1
  /\ orders[Len(orders)].amount = Frac(3, 4)

\* the 100 % preset of a buy writes Infinity (the current price is 0), and
\* the submit of it was judged by the resolver
C19_WitnessInfinity ==
  /\ last.op = "handleSubmit"
  /\ last.arg.amount = Infinity

(***************************************************************************)
(* State machine of the correlation request: the store's positions are     *)
(* posted to the worker, whose result is kept.                             *)
(***************************************************************************)
\* values of Math.random(), which lie in [0, 1)
Randoms == {Zero, Frac(1, 2)}

\* one draw per ordered pair of distinct positions
CorrelationDraws(ps) ==
  [{<<i, j>> \in (1..Len(ps)) \X (1..Len(ps)) : i /= j} -> Randoms]

\* CALCULATE_CORRELATIONS with payload.positions, answered with the matrix
CalculateCorrelations(r) ==
  /\ correlations' = calculateCorrelations(positions, r)
  /\ UNCHANGED <<positions, orders, metrics, lastUpdated, now, isLoading,
                 last, list, calc, feed, worker, socket, form, response,
                 orderBooks>>

NextCorrelations ==
  \/ \E position \in PositionInputs : AddPosition(position)
  \/ \E r \in CorrelationDraws(positions) : CalculateCorrelations(r)

SpecCorrelations == Init /\ [][NextCorrelations]_vars

(***************************************************************************)
(* Properties of calculateCorrelations (checked under SpecCorrelations).   *)
(***************************************************************************)
\* C20: calculateCorrelations returns a symmetric matrix: for every pair
\* of position symbols a and b, matrix[a][b] = matrix[b][a], with
\* matrix[a][a] = 1 and every off-diagonal entry greater than 0.
C20_CorrelationsSymmetric ==
  \A a \in DOMAIN correlations : \A b \in DOMAIN correlations :
    /\ correlations[a][b] = correlations[b][a]
    /\ correlations[a][a] = Num(1)
    /\ a /= b => Gt(correlations[a][b], Zero)

\* what the matrix does satisfy: 1 on the diagonal and every other entry
\* in [0.3, 0.7)
C20_DiagonalOneOthersPositive ==
  \A a \in DOMAIN correlations : \A b \in DOMAIN correlations :
    /\ correlations[a][a] = Num(1)
    /\ a /= b => /\ Ge(correlations[a][b], Frac(3, 10))
                 /\ Lt(correlations[a][b], Frac(7, 10))

\* a matrix over two symbols whose two off-diagonal entries differ
C20_Asymmetric ==
  /\ DOMAIN correlations = {"btc", "eth"}
  /\ correlations["btc"]["eth"] = Frac(3, 10)
  /\ correlations["eth"]["btc"] = Frac(1, 2)

(***************************************************************************)
(* State machine of the risk request: the store's positions are posted to  *)
(* the worker as CALCULATE_RISK_METRICS and the response is kept.          *)
(***************************************************************************)
\* self.onmessage: the response to a message of the type with the payload
Respond(type, payload, result) ==
  /\ response' = [type |-> type, payload |-> payload, result |-> result]
  /\ UNCHANGED <<positions, orders, metrics, lastUpdated, now, isLoading,
                 last, list, calc, feed, worker, socket, form,
                 correlations, orderBooks>>

CalculateRiskMetrics ==
  Respond("CALCULATE_RISK_METRICS", positions,
          calculateRiskMetrics(positions))

NextRisk ==
  \/ \E position \in PositionInputs : AddPosition(position)
  \/ CalculateRiskMetrics

SpecRisk == Init /\ [][NextRisk]_vars

(***************************************************************************)
(* Properties of calculateRiskMetrics (checked under SpecRisk).            *)
(***************************************************************************)
\* C21: calculateRiskMetrics reports value at risk as a loss: for every
\* non-empty position list the returned var95 is less than or equal to 0.
C21_Var95IsLoss ==
  (response.type = "CALCULATE_RISK_METRICS" /\ response.payload /= <<>>) =>
    Le(response.result.var95, Zero)

\* the risk metrics of a single holding bought at 40000 and priced at
\* 50000: var95 is its return of 25 per cent
C21_PositiveVar95 ==
  /\ response.type = "CALCULATE_RISK_METRICS"
  /\ Len(response.payload) = 1
  /\ response.payload[1].currentPrice = Num(50000)
  /\ response.payload[1].averageBuyPrice = Num(40000)
  /\ response.result.var95 = Num(25)

(***************************************************************************)
(* State machine of the price requests: PROCESS_PRICE_DATA messages and    *)
(* direct calls of calculateMovingAverages, over series of bounded length. *)
(***************************************************************************)
MaxSeries == 21

\* raw items {timestamp, price} with one price throughout
flatSeries(n, price) == [k \in 1..n |-> [price |-> price, timestamp |-> k]]

\* raw items whose price rises by 1 per item
risingSeries(n) == [k \in 1..n |-> [price |-> Num(99 + k), timestamp |-> k]]

RawSeries ==
  { flatSeries(n, price) : n \in 0..MaxSeries, price \in {Num(100), Num(50)} }
  \cup { risingSeries(n) : n \in 1..3 }

\* the Math.random() draws of the volumes of n items
VolumeDraws(n) == { [k \in 1..n |-> Zero], [k \in 1..n |-> Frac(1, 2)] }

\* items {close: 100 + i}
CloseSeries ==
  { [k \in 1..n |-> [close |-> Num(99 + k)]] : n \in 0..MaxSeries }

ProcessPriceData(rawData, r) ==
  Respond("PROCESS_PRICE_DATA", rawData, processPriceData(rawData, r))

CalculateMovingAverages(data) ==
  Respond("calculateMovingAverages", data, calculateMovingAverages(data))

NextPrices ==
  \/ \E rawData \in RawSeries : \E r \in VolumeDraws(Len(rawData)) :
       ProcessPriceData(rawData, r)
  \/ \E data \in CloseSeries : CalculateMovingAverages(data)

SpecPrices == Init /\ [][NextPrices]_vars

(***************************************************************************)
(* Properties of the price requests (checked under SpecPrices).            *)
(***************************************************************************)
\* C22: for every input series, of any length including 0 and lengths
\* below the indicator periods, processPriceData returns data, sma20,
\* ema20, rsi and macd, signal and histogram arrays that each have exactly
\* as many elements as the input.
C22_IndicatorsAligned ==
  response.type = "PROCESS_PRICE_DATA" =>
    LET n == Len(response.payload)
        indicators == response.result.indicators
    IN  /\ Len(response.result.data) = n
        /\ Len(indicators.movingAverages.sma20) = n
        /\ Len(indicators.movingAverages.ema20) = n
        /\ Len(indicators.rsi) = n
        /\ Len(indicators.macd.macd) = n
        /\ Len(indicators.macd.signal) = n
        /\ Len(indicators.macd.histogram) = n

\* the same for every series that is not empty
C22_IndicatorsAlignedUnlessEmpty ==
  (response.type = "PROCESS_PRICE_DATA" /\ response.payload /= <<>>) =>
    LET n == Len(response.payload)
        indicators == response.result.indicators
    IN  /\ Len(response.result.data) = n
        /\ Len(indicators.movingAverages.sma20) = n
        /\ Len(indicators.movingAverages.ema20) = n
        /\ Len(indicators.rsi) = n
        /\ Len(indicators.macd.macd) = n
        /\ Len(indicators.macd.signal) = n
        /\ Len(indicators.macd.histogram) = n

\* the empty series gives an rsi array of one null
C22_EmptySeriesOneRsi ==
  /\ response.type = "PROCESS_PRICE_DATA"
  /\ response.payload = <<>>
  /\ response.result.data = <<>>
  /\ response.result.indicators.rsi = <<Null>>

\* the mean of the 20 closes ending at the k-th item of the series
meanOf20(data, k) == Div(Sum([j \in 1..20 |-> data[k - 20 + j].close]), Num(20))

\* C23: calculateMovingAverages returns null for sma20 and ema20 at every
\* index below 19 and a number for both at every index from 19 on, where
\* sma20[i] is the mean of the 20 closes ending at i and the first defined
\* ema20 value is seeded with the first defined sma20 value.
C23_MovingAveragesFromIndex19 ==
  response.type = "calculateMovingAverages" =>
    LET data == response.payload
        sma20 == response.result.sma20
        ema20 == response.result.ema20
    IN  /\ Len(sma20) = Len(data) /\ Len(ema20) = Len(data)
        /\ \A k \in 1..Len(data) :
             IF k - 1 < 19
             THEN sma20[k] = Null /\ ema20[k] = Null
             ELSE /\ sma20[k] /= Null /\ ema20[k] /= Null
                  /\ sma20[k] = meanOf20(data, k)
                  /\ ema20[20] = sma20[20]

\* what holds of sma20: null below index 19, the mean of 20 closes from 19
C23_SimpleAverageFromIndex19 ==
  response.type = "calculateMovingAverages" =>
    \A k \in 1..Len(response.payload) :
      response.result.sma20[k] =
        IF k - 1 < 19 THEN Null ELSE meanOf20(response.payload, k)

\* 21 closes 100..120: sma20[19] is 109.5, ema20[19] is null and ema20[20]
\* is 120 * 2/21 + 0
C23_NullSeed ==
  /\ response.type = "calculateMovingAverages"
  /\ Len(response.payload) = 21
  /\ response.result.sma20[20] = Frac(219, 2)
  /\ response.result.ema20[20] = Null
  /\ response.result.ema20[21] = Frac(240, 21)

(***************************************************************************)
(* Price tracking of added assets (checked under SpecApp).                 *)
(***************************************************************************)
\* the positions that handleAddAsset stored (their ids are 1000 + t)
added(ps) == {i \in 1..Len(ps) : ps[i].id >= 1000}

\* C24: every asset added through the Add Asset dialog gets price
\* tracking: the position stored by handleAddAsset has a symbol of the
\* feed's symbol set, and a feed tick after the add sets its currentPrice
\* to the tick's price and its totalValue to amount * currentPrice.
C24_AddedAssetsTracked ==
  /\ \A i \in added(positions) : positions[i].symbol \in FeedSymbols
  /\ last.op = "mockPriceTick" =>
       \A i \in added(positions) :
         /\ positions[i].symbol \in DOMAIN last.arg
         /\ positions[i].currentPrice = last.arg[positions[i].symbol]
         /\ positions[i].totalValue =
              Mul(positions[i].amount, positions[i].currentPrice)

\* a tick moved the price of an added MATIC position off the price it was
\* added with
C24_AddedAssetRepriced ==
  /\ last.op = "mockPriceTick"
  /\ \E i \in added(positions) :
       /\ positions[i].symbol = "matic"
       /\ positions[i].currentPrice /= cryptoPrices["MATIC"]
       /\ positions[i].currentPrice = last.arg["matic"]

(***************************************************************************)
(* Disconnect of the WebSocket hook (checked under SpecSocket).            *)
(***************************************************************************)
\* C25: after disconnect() of useWebSocket, explicitly or on unmount, no
\* new WebSocket connection attempt is made and connectionStatus stays
\* 'disconnected' until connect() is called again, in every interleaving
\* of a pending reconnect timer with the late close and error events of
\* the socket that was closed.
C25_DisconnectStaysDisconnected ==
  [][socket.halted /\ socket'.halted =>
       /\ socket'.connects = socket.connects
       /\ socket'.nextTimer = socket.nextTimer
       /\ socket'.status = "disconnected"]_vars

\* after unmount a new socket is being connected: the socket that was
\* still connecting at the disconnect closed with code 1006, its onclose
\* scheduled a reconnect and the timer called connect()
C25_ConnectsAfterUnmount ==
  /\ socket.halted
  /\ ~socket.mounted
  /\ socket.status = "reconnecting"
  /\ socket.connects = 2
  /\ socket.ws = <<"closed", "connecting">>

(***************************************************************************)
(* Correlation of worker responses (checked under SpecWorker).             *)
(***************************************************************************)
\* the state and the error of every promise but that of request id are the
\* same in w and v
SameButFor(w, v, id) ==
  \A k \in 1..Len(w.promises) :
    w.promises[k].id /= id =>
      /\ v.promises[k].state = w.promises[k].state
      /\ v.promises[k].error = w.promises[k].error

\* a response with the id of a request that is not pending (timed out,
\* swept, or rejected by terminate) changes no promise and no pending entry
LateResponseIgnored ==
  \A id \in (1..MaxRequests) \ worker.pending, error \in ResponseErrors :
    /\ onmessage(worker, id, error).pending = worker.pending
    /\ SameButFor(onmessage(worker, id, error), worker, 0)

\* a response step settles the request of its id and no other
ResponseSettlesOwnRequest ==
  \A id \in 1..MaxRequests, error \in ResponseErrors :
    WorkerResponds(id, error) =>
      /\ worker'.pending = worker.pending \ {id}
      /\ SameButFor(worker, worker', id)
      /\ id \in worker.pending =>
           /\ promiseOf(worker', id).state =
                (IF error = "" THEN "resolved" ELSE "rejected")
           /\ promiseOf(worker', id).error = error

\* the state of a promise changes only in a step that takes its request out
\* of the pending map, which no step puts back
SettledOnce ==
  /\ \A k \in 1..Len(worker.promises) :
       worker'.promises[k].state /= worker.promises[k].state =>
         /\ worker.promises[k].id \in worker.pending
         /\ worker.promises[k].id \notin worker'.pending
  /\ \A id \in worker'.pending \ worker.pending : id > worker.counter

\* C26: worker responses are correlated by request id: a response settles
\* only the pending request whose id equals the response id, every request
\* is settled at most once, and a response that arrives after its request
\* timed out or after the worker was terminated touches no pending request.
C26_ResponsesCorrelatedById ==
  /\ []LateResponseIgnored
  /\ [][ResponseSettlesOwnRequest /\ SettledOnce]_vars

\* request 1 timed out and its response arrived afterwards, while request
\* 2 was resolved by its own response
C26_LateResponse ==
  /\ worker.available
  /\ Len(worker.promises) = 2
  /\ worker.promises[1].id = 1
  /\ worker.promises[1].error = "Request timeout"
  /\ ~worker.promises[1].sent
  /\ worker.promises[2].id = 2
  /\ worker.promises[2].state = "resolved"

(***************************************************************************)
(* Coverage of the viewport by the rendered rows (checked under SpecList). *)
(***************************************************************************)
\* the height of the scroll container of the list
listContainerHeight == list.height - 200

\* the scroll offsets the container can take over itemCount items
OffsetsInRange(itemCount) ==
  0..(itemCount * itemHeight - listContainerHeight)

\* the offsets in range at which the top or the bottom of the viewport is
\* on a row boundary or one pixel from it: between two of them the rows in
\* the viewport and the window are the same
EdgeOffsets(itemCount) ==
  { s \in OffsetsInRange(itemCount) :
      \/ s % itemHeight \in {0, 1, itemHeight - 1}
      \/ (s + listContainerHeight) % itemHeight \in {0, 1, itemHeight - 1} }

\* the scroll offset is one the container can take over the current items
ScrollWithinRange ==
  list.scrollTop \in OffsetsInRange(Len(listItems(positions, list)))

\* the indices of the rows that intersect the viewport
\* [s, s + containerHeight): row i lies at
\* [i * rowHeight, (i + 1) * rowHeight)
rowsIn(itemCount, s) ==
  { i \in 0..(itemCount - 1) :
      /\ i * itemHeight < s + listContainerHeight
      /\ (i + 1) * itemHeight > s }

rowsInViewport == rowsIn(Len(listItems(positions, list)), list.scrollTop)

\* C27: for every scroll offset s with
\* 0 <= s <= itemCount * rowHeight - containerHeight, every row that
\* intersects the viewport [s, s + containerHeight) is inside the rendered
\* index range [startIndex, endIndex], the rendered range is contiguous and
\* within [0, itemCount - 1], and the rendered block is placed at offset
\* startIndex * rowHeight inside a spacer of height itemCount * rowHeight.
C27_ViewportCovered ==
  LET items == listItems(positions, list)
  IN  \A s \in EdgeOffsets(Len(items)) \cup
                (OffsetsInRange(Len(items)) \cap {list.scrollTop}) :
        LET w == useVirtualization(items, listContainerHeight, itemHeight, s)
        IN  /\ \A i \in rowsIn(Len(items), s) :
                 w.startIndex <= i /\ i <= w.endIndex
            /\ 0 <= w.startIndex
            /\ w.startIndex <= w.endIndex
            /\ w.endIndex <= Len(items) - 1
            /\ w.visibleItems =
                 SubSeq(items, w.startIndex + 1, w.endIndex + 1)
            /\ w.offsetY = w.startIndex * itemHeight
            /\ w.totalHeight = Len(items) * itemHeight

\* the list is scrolled to the last rows: the viewport ends inside the last
\* item and the window ends with it
C27_ScrolledToLastRows ==
  /\ ScrollWithinRange
  /\ list.scrollTop > itemHeight
  /\ Len(listItems(positions, list)) - 1 \in rowsInViewport
  /\ listWindow(positions, list).endIndex = Len(listItems(positions, list)) - 1
  /\ listWindow(positions, list).startIndex > 0

(***************************************************************************)
(* Trades on the store with the amounts a JavaScript number can hold: the  *)
(* order form hands optimisticTrade the amount of its presets, which is    *)
(* Infinity for a buy while no market price is known.                      *)
(***************************************************************************)
\* positive trade amounts
TradeAmounts == {Num(1), Num(3), Infinity}

Trades ==
  [symbol : Symbols, amount : TradeAmounts, price : {Num(60000)},
   type : {"buy", "sell"}]

NextTrades ==
  \/ \E position \in PositionInputs : AddPosition(position)
  \/ \E trade \in Trades : OptimisticTrade(trade)

SpecTrades == Init /\ [][NextTrades]_vars

\* C28: after any sequence of optimisticTrade buys and sells with positive
\* trade amounts, starting from holdings with non-negative amounts, every
\* holding's amount is >= 0: a sell larger than the held quantity clamps the
\* amount to 0 instead of making it negative, and the holding stays in the
\* list.
C28_AmountsNeverNegative ==
  /\ \A i \in 1..Len(positions) : Ge(positions[i].amount, Zero)
  /\ last.op = "optimisticTrade" =>
       /\ Len(positions) = Len(last.pre)
       /\ \A i \in 1..Len(positions) :
            /\ positions[i].id = last.pre[i].id
            /\ /\ i = findSymbol(last.pre, last.arg.symbol)
               /\ last.arg.type = "sell"
               /\ Gt(last.arg.amount, last.pre[i].amount)
               => positions[i].amount = Zero

\* Every holding's amount is 0 or more or is not a number, and a trade
\* removes no holding: holds.
C28_AmountsNonNegativeOrNaN ==
  /\ \A i \in 1..Len(positions) :
       Ge(positions[i].amount, Zero) \/ IsNaN(positions[i].amount)
  /\ last.op = "optimisticTrade" => Len(positions) = Len(last.pre)

\* a sell of more than is held has left a holding of amount 0 in the list
C28_ClampedToZero ==
  /\ last.op = "optimisticTrade"
  /\ last.arg.type = "sell"
  /\ \E i \in 1..Len(positions) :
       /\ i = findSymbol(last.pre, last.arg.symbol)
       /\ Gt(last.arg.amount, last.pre[i].amount)
       /\ positions[i].amount = Zero

\* an unbounded holding was sold whole: its amount is not a number
C28_AmountNotANumber ==
  /\ last.op = "optimisticTrade"
  /\ last.arg.type = "sell"
  /\ \E i \in 1..Len(positions) :
       /\ last.pre[i].amount = Infinity
       /\ IsNaN(positions[i].amount)

(***************************************************************************)
(* The market store's order books and the 'order_book' messages of the     *)
(* WebSocket hook.  A JavaScript object is a function from its keys.       *)
(***************************************************************************)
\* { ...a, ...b }: the keys of both, b's values first
spread(a, b) ==
  [k \in DOMAIN a \cup DOMAIN b |-> IF k \in DOMAIN b THEN b[k] ELSE a[k]]

\* state.orderBooks[symbol], {} for spreading when there is none
bookOf(books, symbol) ==
  IF symbol \in DOMAIN books THEN books[symbol] ELSE <<>>

\* updateOrderBook of the market store: the stored book is the old one
\* spread with the update, then symbol, bids: [], asks: [], lastUpdated
updateOrderBook(books, symbol, orderBook, t) ==
  [s \in DOMAIN books \cup {symbol} |->
     IF s = symbol
     THEN spread(spread(bookOf(books, symbol), orderBook),
                 [symbol |-> symbol, lastUpdated |-> t, bids |-> <<>>,
                  asks |-> <<>>])
     ELSE books[s]]

\* message.data.bids || []
bidsOf(data) == IF "bids" \in DOMAIN data THEN data.bids ELSE <<>>

\* message.data.asks || []
asksOf(data) == IF "asks" \in DOMAIN data THEN data.asks ELSE <<>>

\* handleMessage of useWebSocket for the message types that reach the
\* order books: 'order_book' updates the book of message.data.symbol,
\* 'trade_update' only logs
handleMessage(books, message, t) ==
  IF message.type = "order_book" /\ message.data.symbol /= ""
  THEN updateOrderBook(books, message.data.symbol,
                       [lastUpdated |-> t, bids |-> bidsOf(message.data),
                        asks |-> asksOf(message.data)], t)
  ELSE books

\* an entry of an order book
Entry(price, amount) ==
  [amount |-> Num(amount), price |-> Num(price),
   total |-> Num(price * amount)]

BidLists == {<<>>, <<Entry(59000, 1)>>, <<Entry(59000, 1), Entry(58000, 2)>>}

AskLists == {<<>>, <<Entry(61000, 1)>>}

\* the messages the server sends; a message may lack bids and asks, or
\* name no symbol
Messages ==
  { [type |-> "order_book", data |-> [symbol |-> s, bids |-> b, asks |-> a]] :
      s \in Symbols, b \in BidLists, a \in AskLists }
  \cup { [type |-> "order_book", data |-> [symbol |-> s]] :
           s \in Symbols \cup {""} }
  \cup { [type |-> "trade_update", data |-> [symbol |-> "btc"]] }

\* ws.onmessage with a message that parses
HandleMessage(message) ==
  /\ now < MaxSteps
  /\ orderBooks' = handleMessage(orderBooks, message, now + 1)
  /\ now' = now + 1
  /\ last' = [op |-> "handleMessage", arg |-> message, pre |-> orderBooks]
  /\ UNCHANGED <<positions, orders, metrics, lastUpdated, isLoading, list,
                 calc, feed, worker, socket, form, correlations, response>>

NextMarket == \E message \in Messages : HandleMessage(message)

SpecMarket == Init /\ [][NextMarket]_vars

\* the last step was an 'order_book' message for a symbol
OrderBookUpdated ==
  /\ last.op = "handleMessage"
  /\ last.arg.type = "order_book"
  /\ last.arg.data.symbol /= ""

\* C29: after updateOrderBook(symbol, {bids, asks}) on the market store, as
\* invoked for an 'order_book' WebSocket message, the stored order book for
\* that symbol holds exactly the supplied bids and asks, and order books of
\* other symbols are unchanged.
C29_OrderBookHoldsSuppliedSides ==
  OrderBookUpdated =>
    /\ last.arg.data.symbol \in DOMAIN orderBooks
    /\ orderBooks[last.arg.data.symbol].bids = bidsOf(last.arg.data)
    /\ orderBooks[last.arg.data.symbol].asks = asksOf(last.arg.data)
    /\ \A s \in DOMAIN orderBooks \ {last.arg.data.symbol} :
         s \in DOMAIN last.pre /\ orderBooks[s] = last.pre[s]

\* a message with one bid and one ask has left an empty book
C29_SuppliedSidesDropped ==
  /\ OrderBookUpdated
  /\ bidsOf(last.arg.data) /= <<>>
  /\ asksOf(last.arg.data) /= <<>>
  /\ orderBooks[last.arg.data.symbol].bids = <<>>
  /\ orderBooks[last.arg.data.symbol].asks = <<>>

(***************************************************************************)
(* The portfolio worker: calculatePortfolioMetrics.  volatility and        *)
(* sharpeRatio take square roots, which the rationals do not have: the     *)
(* model returns the variance they are computed from.                      *)
(***************************************************************************)
\* Math.min(x, y)
MathMin(x, y) ==
  IF IsNaN(x) \/ IsNaN(y) THEN NaN ELSE IF Lt(y, x) THEN y ELSE x

RECURSIVE maxTo(_, _)
\* Math.max(...s) over the first k elements of a non-empty s
maxTo(s, k) == IF k = 1 THEN s[1] ELSE MathMax(maxTo(s, k - 1), s[k])

\* r[i] is the Math.random() of the daily change of position i
calculatePortfolioMetrics(ps, r) ==
  IF Len(ps) = 0
  THEN [totalValue |-> Zero, dailyChange |-> Zero,
        dailyChangePercent |-> Zero, totalGainLoss |-> Zero,
        totalGainLossPercent |-> Zero, variance |-> Zero,
        maxDrawdown |-> Zero, winRate |-> Zero,
        diversificationRatio |-> Zero]
  ELSE
    LET totalValue ==
          Sum([i \in 1..Len(ps) |-> Mul(ps[i].amount, ps[i].currentPrice)])
        totalCost ==
          Sum([i \in 1..Len(ps) |-> Mul(ps[i].amount, ps[i].averageBuyPrice)])
        totalGainLoss == Sub(totalValue, totalCost)
        dailyChange ==
          Sum([i \in 1..Len(ps) |->
                 Mul(ps[i].amount,
                     Mul(Mul(Mul(ps[i].currentPrice, Frac(1, 100)),
                             Sub(r[i], Frac(1, 2))), Num(2)))])
        returns == returnsOf(ps)
        avgReturn == Div(Sum(returns), Num(Len(ps)))
        weights ==
          [i \in 1..Len(ps) |->
             Div(Mul(ps[i].amount, ps[i].currentPrice), totalValue)]
    IN  [totalValue |-> totalValue,
         dailyChange |-> dailyChange,
         dailyChangePercent |->
           IF Gt(totalValue, Zero)
           THEN Mul(Div(dailyChange, totalValue), Hundred) ELSE Zero,
         totalGainLoss |-> totalGainLoss,
         totalGainLossPercent |->
           IF Gt(totalCost, Zero)
           THEN Mul(Div(totalGainLoss, totalCost), Hundred) ELSE Zero,
         variance |->
           Div(Sum([i \in 1..Len(ps) |->
                      Mul(Sub(returns[i], avgReturn),
                          Sub(returns[i], avgReturn))]), Num(Len(ps))),
         maxDrawdown |->
           Mul(maxTo([i \in 1..Len(ps) |-> MathMin(Zero, returns[i])],
                     Len(ps)), Hundred),
         winRate |->
           Mul(Div(Num(Cardinality({ i \in 1..Len(ps) :
                                      Gt(ps[i].currentPrice,
                                         ps[i].averageBuyPrice) })),
                   Num(Len(ps))), Hundred),
         diversificationRatio |->
           Div(Num(1),
               Sum([i \in 1..Len(ps) |-> Mul(weights[i], weights[i])]))]

(***************************************************************************)
(* State machine of the metrics requests: the store receives positions and *)
(* prices, and the worker answers CALCULATE_PORTFOLIO_METRICS for the      *)
(* store's positions.                                                      *)
(***************************************************************************)
CalculatePortfolioMetrics(r) ==
  Respond("CALCULATE_PORTFOLIO_METRICS", positions,
          calculatePortfolioMetrics(positions, r))

MetricsDraws == [1..MaxPositions -> Randoms]

\* a position whose caller has derived totalValue and totalGainLoss from
\* amount, price and average buy price
Holding(id, symbol, amount, price, averageBuyPrice) ==
  Position(id, symbol, amount, price, averageBuyPrice, Mul(amount, price),
           Zero, Zero,
           Sub(Mul(amount, price), Mul(amount, averageBuyPrice)), Zero, 0)

\* holdings in profit, a holding priced at 0 and a holding bought at 0
HoldingInputs ==
  { Holding(id, s, Num(2), Num(50000), Num(40000)) :
      id \in Ids, s \in Symbols }
  \cup { Holding(1, "btc", Num(1), Zero, Num(40000)),
         Holding(2, "eth", Num(1), Num(50000), Zero) }

NextMetrics ==
  \/ \E position \in HoldingInputs : AddPosition(position)
  \/ \E priceUpdates \in PriceUpdateInputs : UpdatePrices(priceUpdates)
  \/ \E r \in MetricsDraws : CalculatePortfolioMetrics(r)

SpecMetrics == Init /\ [][NextMetrics]_vars

\* the derived fields of every holding are consistent
Consistent(ps) ==
  \A i \in 1..Len(ps) :
    /\ ps[i].totalValue = Mul(ps[i].amount, ps[i].currentPrice)
    /\ ps[i].totalGainLoss =
         Sub(ps[i].totalValue, Mul(ps[i].amount, ps[i].averageBuyPrice))

\* the worker has answered for a list of consistent holdings
AnsweredConsistent ==
  /\ response.type = "CALCULATE_PORTFOLIO_METRICS"
  /\ Consistent(response.payload)

\* C30: for every holding list whose derived fields are consistent
\* (totalValue = amount * currentPrice and
\* totalGainLoss = totalValue - amount * averageBuyPrice), the store's
\* calculateMetrics and the worker's calculatePortfolioMetrics return the
\* same totalValue, totalGainLoss and totalGainLossPercent, including when
\* total value is 0 or cost basis is 0.
C30_StoreAndWorkerAgree ==
  AnsweredConsistent =>
    /\ response.result.totalValue =
         calculateMetrics(response.payload).totalValue
    /\ response.result.totalGainLoss =
         calculateMetrics(response.payload).totalGainLoss
    /\ response.result.totalGainLossPercent =
         calculateMetrics(response.payload).totalGainLossPercent

\* The two agree on total value and total gain/loss, and on the percentage
\* when both the total value and the cost basis are above 0: holds.
C30_AgreeOnPositiveTotals ==
  AnsweredConsistent =>
    /\ response.result.totalValue =
         calculateMetrics(response.payload).totalValue
    /\ response.result.totalGainLoss =
         calculateMetrics(response.payload).totalGainLoss
    /\ /\ Gt(response.result.totalValue, Zero)
       /\ Gt(Sub(response.result.totalValue, response.result.totalGainLoss),
             Zero)
       => response.result.totalGainLossPercent =
            calculateMetrics(response.payload).totalGainLossPercent

\* a holding priced at 0: the store reports 0 per cent, the worker -100
C30_ZeroValue ==
  /\ AnsweredConsistent
  /\ response.payload /= <<>>
  /\ response.result.totalValue = Zero
  /\ calculateMetrics(response.payload).totalGainLossPercent = Zero
  /\ response.result.totalGainLossPercent = Num(-100)

\* a holding bought at 0: the store reports Infinity, the worker 0 per cent
C30_ZeroCost ==
  /\ AnsweredConsistent
  /\ Gt(response.result.totalValue, Zero)
  /\ response.result.totalGainLoss = response.result.totalValue
  /\ calculateMetrics(response.payload).totalGainLossPercent = Infinity
  /\ response.result.totalGainLossPercent = Zero

====
